---------------------------- MODULE Spec2Model ----------------------------
(***************************************************************************)
(* Model of the train-car database viewer: the Worker's fetch handler with *)
(* its origin/referer boundary check, the query service getTrainCars, and  *)
(* the browser client's loadData / displayData.                            *)
(*                                                                         *)
(* Text is a sequence of one-character strings, so that substring, prefix, *)
(* padding, parseInt and ILIKE are computed character by character.        *)
(* SQL NULL / JS null text is the one-element sequence <<"NULL">>, whose   *)
(* element is no character.  A nullable integer is <<>> or <<n>>.          *)
(***************************************************************************)
EXTENDS Integers, Sequences, FiniteSets, TLC

NULL == <<"NULL">>

IsNull(t) == t = NULL

Min2(a, b) == IF a <= b THEN a ELSE b

Max2(a, b) == IF a >= b THEN a ELSE b

(***************************************************************************)
(* Characters and text                                                     *)
(***************************************************************************)
Digits == <<"0", "1", "2", "3", "4", "5", "6", "7", "8", "9">>

IsDigit(c) == \E i \in 1..10 : Digits[i] = c

DigitVal(c) == (CHOOSE i \in 1..10 : Digits[i] = c) - 1

\* String.prototype.toLowerCase / the case folding of ILIKE, on the letters
\* A to Z.
LowerChar(c) ==
  CASE c = "A" -> "a"
    [] c = "B" -> "b"
    [] c = "C" -> "c"
    [] c = "D" -> "d"
    [] c = "E" -> "e"
    [] c = "F" -> "f"
    [] c = "G" -> "g"
    [] c = "H" -> "h"
    [] c = "I" -> "i"
    [] c = "J" -> "j"
    [] c = "K" -> "k"
    [] c = "L" -> "l"
    [] c = "M" -> "m"
    [] c = "N" -> "n"
    [] c = "O" -> "o"
    [] c = "P" -> "p"
    [] c = "Q" -> "q"
    [] c = "R" -> "r"
    [] c = "S" -> "s"
    [] c = "T" -> "t"
    [] c = "U" -> "u"
    [] c = "V" -> "v"
    [] c = "W" -> "w"
    [] c = "X" -> "x"
    [] c = "Y" -> "y"
    [] c = "Z" -> "z"
    [] OTHER -> c

toLowerCase(s) == [i \in 1..Len(s) |-> LowerChar(s[i])]

\* String.prototype.startsWith
startsWith(s, p) == Len(p) <= Len(s) /\ SubSeq(s, 1, Len(p)) = p

\* String.prototype.includes: t occurs in s as a contiguous substring.
includes(s, t) ==
  \E i \in 0..(Len(s) - Len(t)) : SubSeq(s, i + 1, i + Len(t)) = t

\* String(n) / CAST(n AS TEXT) for a natural number n.
RECURSIVE NumText(_)
NumText(n) ==
  IF n < 10 THEN <<Digits[n + 1]>>
  ELSE NumText(n \div 10) \o <<Digits[(n % 10) + 1]>>

RECURSIVE Repeat(_, _)
Repeat(c, k) == IF k <= 0 THEN <<>> ELSE <<c>> \o Repeat(c, k - 1)

\* String.prototype.padStart(n, c): never shortens.
padStart(s, n, c) == Repeat(c, n - Len(s)) \o s

\* PostgreSQL LPAD(s, n, c): pads on the left, and truncates to n characters
\* when s is longer.
LPAD(s, n, c) == IF Len(s) >= n THEN SubSeq(s, 1, n) ELSE Repeat(c, n - Len(s)) \o s

(***************************************************************************)
(* JS numbers: an integer or NaN.                                          *)
(***************************************************************************)
NaN == [nan |-> TRUE, v |-> 0]

Num(n) == [nan |-> FALSE, v |-> n]

MathMax(a, b) == IF a.nan \/ b.nan THEN NaN ELSE Num(Max2(a.v, b.v))

MathMin(a, b) == IF a.nan \/ b.nan THEN NaN ELSE Num(Min2(a.v, b.v))

IsSpace(c) == c = " "

RECURSIVE TrimStart(_)
TrimStart(s) == IF s # <<>> /\ IsSpace(Head(s)) THEN TrimStart(Tail(s)) ELSE s

\* The longest prefix of s made of decimal digits.
RECURSIVE DigitPrefix(_)
DigitPrefix(s) ==
  IF s # <<>> /\ IsDigit(Head(s)) THEN <<Head(s)>> \o DigitPrefix(Tail(s)) ELSE <<>>

RECURSIVE DigitsValue(_)
DigitsValue(d) ==
  IF d = <<>> THEN 0
  ELSE 10 * DigitsValue(SubSeq(d, 1, Len(d) - 1)) + DigitVal(d[Len(d)])

\* parseInt(s) with the default radix: leading white space is skipped, one
\* sign is read, then the longest run of digits; no digit gives NaN.
parseInt(s) ==
  LET t == TrimStart(s)
      neg == t # <<>> /\ Head(t) = "-"
      u == IF t # <<>> /\ Head(t) \in {"-", "+"} THEN Tail(t) ELSE t
      d == DigitPrefix(u)
  IN IF d = <<>> THEN NaN
     ELSE Num(IF neg THEN 0 - DigitsValue(d) ELSE DigitsValue(d))

\* a || b for a string-or-null a: null and "" are falsy.
OrElse(a, b) == IF IsNull(a) \/ a = <<>> THEN b ELSE a


(***************************************************************************)
(* The backing store: train_cars, train_models, car_marriages.             *)
(***************************************************************************)
\* Largest number of train_cars rows in a store.
MaxCars == 5

NoBatch == <<>>

\* The train_cars rows the stores are drawn from, in insertion order (not in
\* vehicle_id order).  From the sixth on, rows carry an id and nulls.
Car(i) ==
  CASE i = 1 -> [vehicle_id |-> 60, name |-> NULL, status |-> <<"O", "u", "t">>,
                 delivery_date |-> NULL, enter_service_date |-> <<"2", "0", "0", "1">>,
                 batch_id |-> <<1>>, notes |-> <<"a", "_", "b">>, last_modified |-> <<3>>]
    [] i = 2 -> [vehicle_id |-> 1, name |-> <<"A", "b">>, status |-> <<"I", "n">>,
                 delivery_date |-> <<"1", "9", "9", "0">>, enter_service_date |-> NULL,
                 batch_id |-> <<2>>, notes |-> NULL, last_modified |-> <<5>>]
    [] i = 3 -> [vehicle_id |-> 6001, name |-> NULL, status |-> <<"I", "n">>,
                 delivery_date |-> NULL, enter_service_date |-> NULL,
                 batch_id |-> <<9>>, notes |-> <<"5", "0", "%">>, last_modified |-> <<>>]
    [] i = 4 -> [vehicle_id |-> 601, name |-> <<"b", "a">>, status |-> <<"I", "n">>,
                 delivery_date |-> NULL, enter_service_date |-> NULL,
                 batch_id |-> NoBatch, notes |-> NULL, last_modified |-> <<4>>]
    [] i = 5 -> [vehicle_id |-> 0, name |-> <<"x">>, status |-> <<"O", "u", "t">>,
                 delivery_date |-> NULL, enter_service_date |-> NULL,
                 batch_id |-> <<1>>, notes |-> NULL, last_modified |-> <<9>>]
    [] OTHER -> [vehicle_id |-> 100 + i, name |-> NULL, status |-> <<"I", "n">>,
                 delivery_date |-> NULL, enter_service_date |-> NULL,
                 batch_id |-> NoBatch, notes |-> NULL, last_modified |-> <<>>]

\* train_models, keyed by batch_id.
TrainModels ==
  { [batch_id |-> <<1>>, common_name |-> <<"a", "X">>, manufacturer |-> <<"B", "o">>],
    [batch_id |-> <<2>>, common_name |-> <<"M", "I">>, manufacturer |-> NULL] }

\* The car_marriages rows the stores are drawn from; a store holds those
\* whose cars it holds.
AllMarriages ==
  { [marriage_id |-> 2, batch_id |-> <<1>>, cars |-> <<60, 1>>, marriage_size |-> 2],
    [marriage_id |-> 1, batch_id |-> <<9>>, cars |-> <<6001, 601>>, marriage_size |-> 2],
    [marriage_id |-> 3, batch_id |-> <<1>>, cars |-> <<0>>, marriage_size |-> 1] }

Range(f) == { f[i] : i \in DOMAIN f }

StoreOf(k) ==
  LET cars == { Car(i) : i \in 1..k }
      ids == { c.vehicle_id : c \in cars }
  IN [train_cars |-> cars,
      train_models |-> TrainModels,
      car_marriages |-> { m \in AllMarriages : Range(m.cars) \subseteq ids }]

Stores == { StoreOf(k) : k \in 0..MaxCars }

\* Number of train_cars rows of the fleet store, which fills more than one
\* page of the listing, flat or grouped.
FleetCars == 56

\* The car_marriages rows of the fleet store beyond AllMarriages: each row
\* from the sixth on is a marriage of one.
FleetMarriages ==
  { [marriage_id |-> 10 + i, batch_id |-> NoBatch,
     cars |-> <<Car(i).vehicle_id>>, marriage_size |-> 1] : i \in 6..FleetCars }

Fleet ==
  [train_cars |-> { Car(i) : i \in 1..FleetCars },
   train_models |-> TrainModels,
   car_marriages |-> AllMarriages \cup FleetMarriages]

(***************************************************************************)
(* SQL of getTrainCars                                                     *)
(***************************************************************************)
\* s LIKE p: % matches any run of characters, _ any one character, and a
\* backslash makes the next pattern character literal.
RECURSIVE Like(_, _)
Like(s, p) ==
  IF p = <<>> THEN s = <<>>
  ELSE IF Head(p) = "%" THEN Like(s, Tail(p)) \/ (s # <<>> /\ Like(Tail(s), p))
  ELSE IF Head(p) = "\\" /\ Len(p) >= 2
    THEN s # <<>> /\ Head(s) = p[2] /\ Like(Tail(s), Tail(Tail(p)))
  ELSE s # <<>> /\ (Head(p) = "_" \/ Head(p) = Head(s)) /\ Like(Tail(s), Tail(p))

\* col ILIKE pattern is TRUE; a NULL column gives NULL, which selects nothing.
ILIKE(col, pattern) ==
  ~IsNull(col) /\ Like(toLowerCase(col), toLowerCase(pattern))

\* One row of: train_cars tc LEFT JOIN train_models tm ON tc.batch_id = tm.batch_id,
\* with the selected columns.
JoinedRow(tc, common_name, manufacturer) ==
  [vehicle_id |-> tc.vehicle_id, name |-> tc.name, status |-> tc.status,
   delivery_date |-> tc.delivery_date, enter_service_date |-> tc.enter_service_date,
   batch_id |-> tc.batch_id, notes |-> tc.notes,
   model_common_name |-> common_name, manufacturer |-> manufacturer]

LeftJoin(db) ==
  { JoinedRow(tc, tm.common_name, tm.manufacturer) :
      <<tc, tm>> \in { pr \in db.train_cars \X db.train_models :
                         pr[1].batch_id # NoBatch /\ pr[1].batch_id = pr[2].batch_id } }
  \cup
  { JoinedRow(tc, NULL, NULL) :
      tc \in { c \in db.train_cars :
                 \A tm \in db.train_models :
                   c.batch_id = NoBatch \/ c.batch_id # tm.batch_id } }

\* The WHERE clause, with $1 = pattern.
whereClause(row, pattern) ==
  \/ ILIKE(LPAD(NumText(row.vehicle_id), 3, "0"), pattern)
  \/ ILIKE(NumText(row.vehicle_id), pattern)
  \/ ILIKE(row.name, pattern)
  \/ ILIKE(row.status, pattern)
  \/ ILIKE(row.delivery_date, pattern)
  \/ ILIKE(row.enter_service_date, pattern)
  \/ ILIKE(row.notes, pattern)
  \/ ILIKE(row.model_common_name, pattern)

\* ORDER BY tc.vehicle_id, of a finite set of rows: a row stands after as
\* many rows as have a smaller key (vehicle_id is the key of train_cars).
OrderByVehicleId(S) ==
  LET before == [x \in S |-> Cardinality({ y \in S : y.vehicle_id < x.vehicle_id })]
  IN [i \in 1..Cardinality(S) |-> CHOOSE x \in S : before[x] = i - 1]

\* ORDER BY marriage_id, of a finite set of rows (marriage_id is the key of
\* car_marriages).
OrderByMarriageId(S) ==
  LET before == [x \in S |-> Cardinality({ y \in S : y.marriage_id < x.marriage_id })]
  IN [i \in 1..Cardinality(S) |-> CHOOSE x \in S : before[x] = i - 1]

\* Mutant of LimitOffset: the offset is not applied.
LimitOffset_NoOffset(rows, limit, offset) == SubSeq(rows, 1, Min2(Len(rows), limit))

\* Mutant of LimitOffset: one row too many.
LimitOffset_OneMore(rows, limit, offset) ==
  SubSeq(rows, offset + 1, Min2(Len(rows), offset + limit + 1))

\* LIMIT limit OFFSET offset
LimitOffset(rows, limit, offset) ==
  SubSeq(rows, offset + 1, Min2(Len(rows), offset + limit))

(***************************************************************************)
(* getTrainCars: parameters, queries and response                          *)
(***************************************************************************)
TRUE_TEXT == <<"t", "r", "u", "e">>

\* searchParams.get("search") || ""
search(p) == OrElse(p.search, <<>>)

\* Mutant of groupByMarriage: the comparison ignores case.
groupByMarriage_AnyCase(p) ==
  ~IsNull(p.groupByMarriage) /\ toLowerCase(p.groupByMarriage) = TRUE_TEXT

\* searchParams.get("groupByMarriage") === "true"
groupByMarriage(p) == p.groupByMarriage = TRUE_TEXT

\* Mutant of limit: the lower clamp is missing.
limit_NoFloor(p) == MathMin(parseInt(OrElse(p.limit, <<"5", "0">>)), Num(100))

\* Math.min(Math.max(parseInt(searchParams.get("limit") || "50"), 1), 100)
limit(p) == MathMin(MathMax(parseInt(OrElse(p.limit, <<"5", "0">>)), Num(1)), Num(100))

\* Math.max(parseInt(searchParams.get("offset") || "0"), 0)
offset(p) == MathMax(parseInt(OrElse(p.offset, <<"0">>)), Num(0))

\* Mutant of filtered: the search is applied when grouping too.
filtered_AlsoGrouped(p) == search(p) # <<>>

\* The WHERE clause is appended, and `%${search}%` pushed as $1.
filtered(p) == ~groupByMarriage(p) /\ search(p) # <<>>

pattern(p) == <<"%">> \o search(p) \o <<"%">>

\* The rows the WHERE clause (when appended) leaves of the join.
Selected(db, p) ==
  IF filtered(p) THEN { r \in LeftJoin(db) : whereClause(r, pattern(p)) }
  ELSE LeftJoin(db)

\* client.query(query, queryParams): the listing.
dataResult(db, p) ==
  IF groupByMarriage(p) THEN OrderByVehicleId(Selected(db, p))
  ELSE LimitOffset(OrderByVehicleId(Selected(db, p)), limit(p).v, offset(p).v)

\* Mutant of countResult: the count query lacks the WHERE clause.
countResult_Unfiltered(db, p) == NumText(Cardinality(db.train_cars))

\* client.query(countQuery, params): COUNT(*) over train_cars, joined and
\* filtered only when the WHERE clause was appended; pg returns the bigint as
\* text.
countResult(db, p) ==
  IF filtered(p)
    THEN NumText(Cardinality({ r \in LeftJoin(db) : whereClause(r, pattern(p)) }))
    ELSE NumText(Cardinality(db.train_cars))

\* Mutant of lastUpdatedResult: the least timestamp instead of the greatest.
lastUpdatedResult_Min(db) ==
  LET ts == { c.last_modified[1] : c \in { x \in db.train_cars : x.last_modified # <<>> } }
  IN IF ts = {} THEN <<>> ELSE <<CHOOSE t \in ts : \A u \in ts : t <= u>>

\* SELECT MAX(last_modified) FROM train_cars: NULL when no row has one.
lastUpdatedResult(db) ==
  LET ts == { c.last_modified[1] : c \in { x \in db.train_cars : x.last_modified # <<>> } }
  IN IF ts = {} THEN <<>> ELSE <<CHOOSE t \in ts : \A u \in ts : u <= t>>

\* SELECT ... FROM car_marriages ORDER BY marriage_id
marriagesResult(db) == OrderByMarriageId(db.car_marriages)

\* A number as JSON.stringify writes it: NaN becomes null.
JsonNumber(x) == IF x.nan THEN <<>> ELSE <<x.v>>

\* The body of the 200 response.
TrainCarsResponse(db, p) ==
  [data |-> dataResult(db, p),
   total |-> parseInt(countResult(db, p)).v,
   limit |-> JsonNumber(limit(p)),
   offset |-> JsonNumber(offset(p)),
   lastUpdated |-> lastUpdatedResult(db),
   marriages |-> IF groupByMarriage(p)
                   THEN [null |-> FALSE, rows |-> marriagesResult(db)]
                   ELSE [null |-> TRUE, rows |-> <<>>]]

GenericError == "An error occurred while fetching train cars data. Please try again later."

Unauthorized == "Unauthorized: API can only be called from this website."

\* Mutant of ErrorBody: the caught error's message is sent to the caller.
ErrorBody_Leaky(e) == [error |-> e]

\* What the 500 body is built from in the catch block: the fixed message,
\* whatever e was thrown.
ErrorBody(e) == [error |-> GenericError]

\* Errors a request can meet.
NoError == "none"

ConnectError == "connect ECONNREFUSED"

\* pg sends a NaN limit or offset as the text NaN, which the server rejects
\* for the bigint LIMIT / OFFSET parameter.
BindError == "invalid input syntax for type bigint: NaN"

QueryNames == {"data", "count", "lastUpdated", "marriages"}

QueryError(q) ==
  CASE q = "data" -> "error in: SELECT tc.vehicle_id ... FROM train_cars tc LEFT JOIN train_models tm"
    [] q = "count" -> "error in: SELECT COUNT(*) as total FROM train_cars tc"
    [] q = "lastUpdated" -> "error in: SELECT MAX(last_modified) as last_modified FROM train_cars"
    [] OTHER -> "error in: SELECT marriage_id, batch_id, cars, marriage_size FROM car_marriages"

\* The queries a request issues.
Issued(p) == IF groupByMarriage(p) THEN QueryNames ELSE QueryNames \ {"marriages"}

\* The listing's parameters are [...params, limit, offset] only when not
\* grouping.
BindFails(p) == ~groupByMarriage(p) /\ (limit(p).nan \/ offset(p).nan)

\* Building the response can throw after the queries succeeded.
ResponseError == "TypeError: cannot build the response"

\* Mutant of Statement: the queries delete instead of reading.
Statement_Delete(q) == [verb |-> "DELETE", tables |-> {"train_cars"}]

\* The statement of each query: its verb and the tables it names.
Statement(q) ==
  CASE q = "data" -> [verb |-> "SELECT", tables |-> {"train_cars", "train_models"}]
    [] q = "count" -> [verb |-> "SELECT", tables |-> {"train_cars", "train_models"}]
    [] q = "lastUpdated" -> [verb |-> "SELECT", tables |-> {"train_cars"}]
    [] OTHER -> [verb |-> "SELECT", tables |-> {"car_marriages"}]

\* The store after it ran the statement of q: a SELECT leaves it as it is,
\* any other statement changes the rows of the tables it names.
Execute(store, q) ==
  IF Statement(q).verb = "SELECT" THEN store
  ELSE [train_cars |-> IF "train_cars" \in Statement(q).tables
                         THEN {} ELSE store.train_cars,
        train_models |-> IF "train_models" \in Statement(q).tables
                           THEN {} ELSE store.train_models,
        car_marriages |-> IF "car_marriages" \in Statement(q).tables
                            THEN {} ELSE store.car_marriages]

\* Mutant of PromiseAll: the await resolves with the first query that succeeds.
PromiseAll_Any(queries, p) == \E q \in Issued(p) : queries[q] = "ok"

\* await Promise.all([...]) resolves when every issued query has succeeded;
\* marriagesPromise is Promise.resolve(null) when not grouping.
PromiseAll(queries, p) == \A q \in Issued(p) : queries[q] = "ok"

\* Mutant of NewClient: one Client for the module, used by every invocation.
NewClient_Shared(i) == 1

\* new Client(...): each invocation of getTrainCars creates its own.
NewClient(i) == i

(***************************************************************************)
(* fetch: routing and the origin / referer check                           *)
(***************************************************************************)
HTTPS == <<"h", "t", "t", "p", "s", ":", "/", "/">>

HTTP == <<"h", "t", "t", "p", ":", "/", "/">>

LOCALHOST == <<"l", "o", "c", "a", "l", "h", "o", "s", "t">>

LOOPBACK4 == <<"1", "2", "7", ".", "0", ".", "0", ".", "1">>

LOOPBACK6 == <<":", ":", "1">>

API_PATH == "/api/train-cars"

\* request.headers.get("Host") || url.host
host(r) == OrElse(r.hostHeader, r.urlHost)

\* Mutant of isDevelopment: plain http is accepted on every host.
isDevelopment_Always(h) == TRUE

isDevelopment(h) ==
  \/ h = LOCALHOST \/ startsWith(h, LOCALHOST \o <<":">>)
  \/ h = LOOPBACK4 \/ startsWith(h, LOOPBACK4 \o <<":">>)
  \/ h = LOOPBACK6 \/ startsWith(h, <<"[">> \o LOOPBACK6 \o <<"]", ":">>)

\* origin && (...): a null or empty header is falsy.
hasInvalidOrigin(r) ==
  LET origin == r.origin
      h == host(r)
  IN /\ ~IsNull(origin) /\ origin # <<>>
     /\ IF isDevelopment(h)
          THEN origin # HTTPS \o h /\ origin # HTTP \o h
          ELSE origin # HTTPS \o h

hasInvalidReferer(r) ==
  LET referer == r.referer
      h == host(r)
  IN /\ ~IsNull(referer) /\ referer # <<>>
     /\ IF isDevelopment(h)
          THEN /\ ~startsWith(referer, HTTPS \o h \o <<"/">>)
               /\ ~startsWith(referer, HTTP \o h \o <<"/">>)
          ELSE ~startsWith(referer, HTTPS \o h \o <<"/">>)

SecurityHeaders == {"X-Content-Type-Options", "X-Frame-Options", "Referrer-Policy"}

\* addSecurityHeaders(response): same status and body, the headers added.
addSecurityHeaders(response) == [response EXCEPT !.headers = @ \cup SecurityHeaders]

\* Response.json(body, {status})
ResponseJson(body, status) ==
  [status |-> status, body |-> body, headers |-> {"Content-Type"}]

NoResponse == [status |-> 0, body |-> [none |-> TRUE], headers |-> {}]

NoExchange == [path |-> "none", params |-> [none |-> TRUE], response |-> NoResponse]

(***************************************************************************)
(* State                                                                   *)
(***************************************************************************)
\* Invocations of fetch that can be under way at once.
MaxCalls == 2

Slots == 1..MaxCalls

VARIABLES
  db,        \* the backing store
  calls,     \* the invocations of fetch, one record per slot
  clients,   \* the pg Client objects: none, new, connected, ending, ended
  prev,      \* the last logged exchange (history)
  \* the browser client (the page's script)
  searchInput,            \* value of the search box
  groupByMarriageInput,   \* the "Group by marriage" checkbox
  currentPage,
  currentSearch,
  totalRecords,
  currentData,
  lastUpdated,
  marriages,
  filteredMarriagesCount,
  content,   \* what the content area shows
  stats,     \* what updateStats wrote
  modal,     \* the detail overlay
  outbox,    \* fetches sent and not yet taken up by the worker
  inbox      \* responses not yet handled by the page

svars == <<db, calls, clients, prev>>

cvars == <<searchInput, groupByMarriageInput, currentPage, currentSearch, totalRecords,
           currentData, lastUpdated, marriages, filteredMarriagesCount, content, stats,
           modal, outbox, inbox>>

vars == <<svars, cvars>>

NoRequest ==
  [path |-> "none", hostHeader |-> NULL, urlHost |-> <<>>, origin |-> NULL,
   referer |-> NULL,
   params |-> [search |-> NULL, groupByMarriage |-> NULL, limit |-> NULL, offset |-> NULL]]

\* No query was issued.
NoQueries == [q \in QueryNames |-> "none"]

\* A slot without an invocation.  Of an invocation: the request, where its
\* handling stands, the Client it created (0: none yet), its queries (none,
\* pending, ok, failed), how many times it called client.end(), the error
\* it caught, what console.error wrote, and the response it built.
NoCall ==
  [req |-> NoRequest, pc |-> "idle", client |-> 0, queries |-> NoQueries,
   endCalls |-> 0, thrown |-> NoError, log |-> {}, resp |-> NoResponse]

\* The first invocation's request, position, Client, and so on.
req == calls[1].req

pc == calls[1].pc

client == IF calls[1].client = 0 THEN "none" ELSE clients[calls[1].client]

endCalls == calls[1].endCalls

thrown == calls[1].thrown

log == calls[1].log

resp == calls[1].resp

NoMarriages == [null |-> TRUE, rows |-> <<>>]

Loading == [kind |-> "loading", message |-> "", rows |-> <<>>]

NoStats ==
  [shown |-> FALSE, totalItems |-> 0, totalPages |-> 0, start |-> 0, end |-> 0,
   pageInfo |-> <<0, 0>>, prevDisabled |-> FALSE, nextDisabled |-> FALSE]

NoModal == [open |-> FALSE, vehicle |-> <<>>, idCell |-> <<>>, tooltip |-> FALSE]

\* The worker before its first request.
InitWorker ==
  /\ calls = [i \in Slots |-> NoCall]
  /\ clients = [c \in Slots |-> "none"]
  /\ prev = NoExchange

\* The page's script before its first loadData().
InitPage ==
  /\ searchInput = <<>>
  /\ groupByMarriageInput = FALSE
  /\ currentPage = 0
  /\ currentSearch = <<>>
  /\ totalRecords = 0
  /\ currentData = <<>>
  /\ lastUpdated = <<>>
  /\ marriages = NoMarriages
  /\ filteredMarriagesCount = 0
  /\ content = Loading
  /\ stats = NoStats
  /\ modal = NoModal
  /\ outbox = <<>>
  /\ inbox = <<>>

Init ==
  /\ db \in Stores
  /\ InitWorker
  /\ InitPage

(***************************************************************************)
(* Actions of the worker, for the invocation in slot i                     *)
(***************************************************************************)
\* The invocation in slot i becomes c; the others stay.
Becomes(i, c) == calls' = [calls EXCEPT ![i] = c]

\* A request from the set R arrives at fetch.
Receive(i, R) ==
  /\ calls[i].pc = "idle"
  /\ \E r \in R : Becomes(i, [calls[i] EXCEPT !.req = r, !.pc = "fetch"])
  /\ UNCHANGED <<db, clients, prev>>
  /\ UNCHANGED cvars

\* Any path but the API's: the stylesheet, the script or the HTML document.
StaticResponse(r) ==
  addSecurityHeaders(
    [status |-> 200,
     body |-> [asset |-> CASE r.path = "/styles.css" -> "css"
                           [] r.path = "/app.js" -> "js"
                           [] OTHER -> "html"],
     headers |-> {"Content-Type"}])

ServeStatic(i) ==
  /\ calls[i].pc = "fetch"
  /\ calls[i].req.path # API_PATH
  /\ Becomes(i, [calls[i] EXCEPT !.resp = StaticResponse(calls[i].req), !.pc = "done"])
  /\ UNCHANGED <<db, clients, prev>>
  /\ UNCHANGED cvars

Reject_ClientFirst(i) ==
  /\ calls[i].pc = "fetch"
  /\ calls[i].req.path = API_PATH
  /\ hasInvalidOrigin(calls[i].req) \/ hasInvalidReferer(calls[i].req)
  /\ Becomes(i, [calls[i] EXCEPT
                   !.resp = addSecurityHeaders(ResponseJson([error |-> Unauthorized], 403)),
                   !.client = i,
                   !.pc = "done"])
  /\ clients' = [clients EXCEPT ![i] = "new"]
  /\ UNCHANGED <<db, prev>>
  /\ UNCHANGED cvars

\* hasInvalidOrigin || hasInvalidReferer: 403, getTrainCars is not called.
Reject(i) ==
  /\ calls[i].pc = "fetch"
  /\ calls[i].req.path = API_PATH
  /\ hasInvalidOrigin(calls[i].req) \/ hasInvalidReferer(calls[i].req)
  /\ Becomes(i, [calls[i] EXCEPT
                   !.resp = addSecurityHeaders(ResponseJson([error |-> Unauthorized], 403)),
                   !.pc = "done"])
  /\ UNCHANGED <<db, clients, prev>>
  /\ UNCHANGED cvars

\* getTrainCars is called: new Client(...), then await client.connect().
CallGetTrainCars(i) ==
  /\ calls[i].pc = "fetch"
  /\ calls[i].req.path = API_PATH
  /\ ~(hasInvalidOrigin(calls[i].req) \/ hasInvalidReferer(calls[i].req))
  /\ Becomes(i, [calls[i] EXCEPT !.client = NewClient(i), !.pc = "connect"])
  /\ clients' = [clients EXCEPT ![NewClient(i)] = "new"]
  /\ UNCHANGED <<db, prev>>
  /\ UNCHANGED cvars

\* client.end() is called: the release of the connection begins.
clientEnd(state) == IF state = "ended" THEN "ended" ELSE "ending"

\* Control enters the catch block with e: ctx.waitUntil(client.end()), then
\* console.error.  The response is built next.
Catch(i, c, e) ==
  /\ Becomes(i, [c EXCEPT !.thrown = e, !.endCalls = @ + 1, !.log = {e},
                          !.pc = "caught"])
  /\ clients' = [clients EXCEPT ![c.client] = clientEnd(@)]

\* await client.connect() resolves; the code runs on to its next await, the
\* one of Promise.all, and so issues every query of the request.
ConnectOk(i) ==
  /\ calls[i].pc = "connect"
  /\ clients[calls[i].client] = "new"
  /\ clients' = [clients EXCEPT ![calls[i].client] = "connected"]
  /\ Becomes(i, [calls[i] EXCEPT
                   !.queries = [q \in QueryNames |->
                                  IF q \in Issued(calls[i].req.params) THEN "pending"
                                  ELSE "none"],
                   !.pc = "await"])
  /\ UNCHANGED <<db, prev>>
  /\ UNCHANGED cvars

\* await client.connect() rejects.
ConnectFail(i) ==
  /\ calls[i].pc = "connect"
  /\ Catch(i, calls[i], ConnectError)
  /\ UNCHANGED <<db, prev>>
  /\ UNCHANGED cvars

\* One of the pending queries completes, in any order.
QueryCompletes(i) ==
  /\ calls[i].pc = "await"
  /\ \E q \in QueryNames :
       /\ calls[i].queries[q] = "pending"
       /\ ~(q = "data" /\ BindFails(calls[i].req.params))
       /\ Becomes(i, [calls[i] EXCEPT !.queries[q] = "ok"])
       /\ db' = Execute(db, q)
  /\ UNCHANGED <<clients, prev>>
  /\ UNCHANGED cvars

\* One of the pending queries fails: Promise.all rejects with its error, the
\* other queries as they are.
QueriesFail(i) ==
  /\ calls[i].pc = "await"
  /\ \E q \in QueryNames :
       /\ calls[i].queries[q] = "pending"
       /\ \E e \in {QueryError(q)}
               \cup (IF q = "data" /\ BindFails(calls[i].req.params)
                       THEN {BindError} ELSE {}) :
            Catch(i, [calls[i] EXCEPT !.queries[q] = "failed"], e)
  /\ UNCHANGED <<db, prev>>
  /\ UNCHANGED cvars

\* await Promise.all([...]) resolves; the next statement is
\* ctx.waitUntil(client.end()).
QueriesSucceed(i) ==
  /\ calls[i].pc = "await"
  /\ PromiseAll(calls[i].queries, calls[i].req.params)
  /\ Becomes(i, [calls[i] EXCEPT !.endCalls = @ + 1, !.pc = "respond"])
  /\ clients' = [clients EXCEPT ![calls[i].client] = clientEnd(@)]
  /\ UNCHANGED <<db, prev>>
  /\ UNCHANGED cvars

\* return Response.json({...}) of the try block.
ReturnResponse(i) ==
  /\ calls[i].pc = "respond"
  /\ Becomes(i, [calls[i] EXCEPT
                   !.resp = addSecurityHeaders(
                              ResponseJson(TrainCarsResponse(db, calls[i].req.params), 200)),
                   !.pc = "done"])
  /\ UNCHANGED <<db, clients, prev>>
  /\ UNCHANGED cvars

\* Building the response of the try block throws.
ResponseThrows(i) ==
  /\ calls[i].pc = "respond"
  /\ Catch(i, calls[i], ResponseError)
  /\ UNCHANGED <<db, prev>>
  /\ UNCHANGED cvars

\* return Response.json({ error: ... }, { status: 500 }) of the catch block.
ReturnError(i) ==
  /\ calls[i].pc = "caught"
  /\ Becomes(i, [calls[i] EXCEPT
                   !.resp = addSecurityHeaders(ResponseJson(ErrorBody(calls[i].thrown), 500)),
                   !.pc = "done"])
  /\ UNCHANGED <<db, clients, prev>>
  /\ UNCHANGED cvars

\* The client.end() handed to ctx.waitUntil settles, after the code that
\* called it has run to its return.
EndClient(i) ==
  /\ calls[i].pc = "done"
  /\ calls[i].client # 0
  /\ clients[calls[i].client] = "ending"
  /\ clients' = [clients EXCEPT ![calls[i].client] = "ended"]
  /\ UNCHANGED <<db, calls, prev>>
  /\ UNCHANGED cvars

\* The invocation is over: the response was handed back and every promise
\* given to ctx.waitUntil has settled.  The request's objects are gone.
Finished(i) ==
  /\ calls[i].pc = "done"
  /\ calls[i].endCalls > 0 => clients[calls[i].client] = "ended"
  /\ Becomes(i, NoCall)
  /\ clients' = IF calls[i].client = 0 THEN clients
                ELSE [clients EXCEPT ![calls[i].client] = "none"]

Return(i) ==
  /\ Finished(i)
  /\ UNCHANGED <<db, prev>>
  /\ UNCHANGED cvars

\* As Return, and the exchange is entered in the history.
ReturnLogged(i) ==
  /\ Finished(i)
  /\ prev' = [path |-> calls[i].req.path, params |-> calls[i].req.params,
              response |-> calls[i].resp]
  /\ UNCHANGED db
  /\ UNCHANGED cvars

\* The errors getTrainCars can catch for a request with the parameters p.
Errors(p) ==
  {ConnectError, ResponseError} \cup { QueryError(q) : q \in Issued(p) }
  \cup (IF BindFails(p) THEN {BindError} ELSE {})

\* What fetch can return for the request r against the store: the asset, the
\* 403, or for a request passed to getTrainCars the 200 of its parameters
\* (unless a parameter cannot be bound) or the 500 of an error.
Responses(store, r) ==
  IF r.path # API_PATH THEN {StaticResponse(r)}
  ELSE IF hasInvalidOrigin(r) \/ hasInvalidReferer(r)
    THEN {addSecurityHeaders(ResponseJson([error |-> Unauthorized], 403))}
  ELSE { addSecurityHeaders(ResponseJson(ErrorBody(e), 500)) : e \in Errors(r.params) }
       \cup (IF BindFails(r.params) THEN {}
             ELSE {addSecurityHeaders(ResponseJson(TrainCarsResponse(store, r.params), 200))})

\* fetch from its call to its return, as the page sees it: one step.
Fetch(i) ==
  /\ calls[i].pc = "fetch"
  /\ \E r \in Responses(db, calls[i].req) :
       Becomes(i, [calls[i] EXCEPT !.resp = r, !.pc = "done"])
  /\ UNCHANGED <<db, clients, prev>>
  /\ UNCHANGED cvars

(***************************************************************************)
(* Requests and specifications                                             *)
(***************************************************************************)
SITE == <<"a", ".", "i", "o">>

EVIL == <<"e", ".", "i", "o">>

NoParams == [search |-> NULL, groupByMarriage |-> NULL, limit |-> NULL, offset |-> NULL]

\* A request to the data endpoint: h is <<Host header, url.host>>.
ApiRequest(h, origin, referer, params) ==
  [path |-> API_PATH, hostHeader |-> h[1], urlHost |-> h[2],
   origin |-> origin, referer |-> referer, params |-> params]

StaticRequests ==
  { [path |-> pth, hostHeader |-> SITE, urlHost |-> SITE, origin |-> NULL,
     referer |-> NULL, params |-> NoParams] : pth \in {"/", "/styles.css", "/app.js"} }

\* The page's own requests carry the site's origin; a foreign page's carry
\* its own.
SameSite(params) ==
  { ApiRequest(<<SITE, SITE>>, HTTPS \o SITE, NULL, p) : p \in params }

CrossSite == { ApiRequest(<<SITE, SITE>>, HTTPS \o EVIL, NULL, NoParams) }

\* Values of the search, groupByMarriage, limit and offset parameters.
SearchTexts ==
  { NULL, <<>>, <<"0", "0", "1">>, <<"A">>, <<"_">>, <<"6", "0">>, <<"z">> }

GroupTexts == { NULL, TRUE_TEXT, <<"T", "R", "U", "E">>, <<"1">> }

LimitTexts ==
  { NULL, <<>>, <<"a", "b", "c">>, <<"-", "1">>, <<"0">>, <<"1">>, <<"2">>,
    <<"1", "0", "0">>, <<"1", "0", "1">>, <<"2", "x">> }

OffsetTexts ==
  { NULL, <<>>, <<"a", "b", "c">>, <<"-", "1">>, <<"0">>, <<"1">>, <<"2">>, <<"9">> }

ParamsOf(S, G, L, O) ==
  { [search |-> q[1], groupByMarriage |-> q[2], limit |-> q[3], offset |-> q[4]] :
      q \in S \X G \X L \X O }

\* Requests of the main specification: every parameter combination from the
\* site itself, one cross-site request, and the static routes.
Requests ==
  SameSite(ParamsOf(SearchTexts, GroupTexts, LimitTexts, OffsetTexts))
  \cup CrossSite
  \cup StaticRequests

Next ==
  \/ Receive(1, Requests)
  \/ ServeStatic(1)
  \/ Reject(1)
  \/ CallGetTrainCars(1)
  \/ ConnectOk(1)
  \/ ConnectFail(1)
  \/ QueryCompletes(1)
  \/ QueriesFail(1)
  \/ QueriesSucceed(1)
  \/ ReturnResponse(1)
  \/ ResponseThrows(1)
  \/ ReturnError(1)
  \/ EndClient(1)
  \/ Return(1)

Spec == Init /\ [][Next]_vars

(***************************************************************************)
(* Properties of the query service                                         *)
(***************************************************************************)
\* A completed exchange with the API, and its parts.
ApiDone == pc = "done" /\ req.path = API_PATH

Ok200 == ApiDone /\ resp.status = 200

Ungrouped200 == Ok200 /\ req.params.groupByMarriage # TRUE_TEXT

Grouped200 == Ok200 /\ req.params.groupByMarriage = TRUE_TEXT

Absent(t) == IsNull(t) \/ t = <<>>

\* t is the decimal notation of an integer: an optional minus sign, then digits.
IsIntText(t) ==
  /\ ~Absent(t)
  /\ LET u == IF Head(t) = "-" THEN Tail(t) ELSE t
     IN u # <<>> /\ \A i \in 1..Len(u) : IsDigit(u[i])

IntOf(t) == IF Head(t) = "-" THEN 0 - DigitsValue(Tail(t)) ELSE DigitsValue(t)

ExpectedLimit(t) == IF Absent(t) THEN 50 ELSE Min2(Max2(IntOf(t), 1), 100)

ExpectedOffset(t) == IF Absent(t) THEN 0 ELSE Max2(IntOf(t), 0)

\* C1: for an integer limit n the effective limit is min(max(n,1),100) and for
\* an integer offset m the effective offset is max(m,0); absent or empty
\* parameters give 50 and 0.  The effective values are echoed in the response
\* and, when not grouping, are the LIMIT and OFFSET of the listing.
C1_EffectiveLimitOffset ==
  Ok200 =>
    LET p == req.params
        okL == Absent(p.limit) \/ IsIntText(p.limit)
        okO == Absent(p.offset) \/ IsIntText(p.offset)
        all == OrderByVehicleId(Selected(db, p))
    IN /\ okL => resp.body.limit = <<ExpectedLimit(p.limit)>>
       /\ okO => resp.body.offset = <<ExpectedOffset(p.offset)>>
       /\ (okL /\ okO /\ p.groupByMarriage # TRUE_TEXT) =>
            resp.body.data =
              SubSeq(all, ExpectedOffset(p.offset) + 1,
                     Min2(Len(all), ExpectedOffset(p.offset) + ExpectedLimit(p.limit)))

\* limit=0 is raised to 1 and offset=-1 to 0, and one row of several is listed.
C1_Witness ==
  /\ Ungrouped200
  /\ req.params.limit = <<"0">> /\ resp.body.limit = <<1>>
  /\ req.params.offset = <<"-", "1">> /\ resp.body.offset = <<0>>
  /\ Len(resp.body.data) = 1
  /\ Cardinality(db.train_cars) > 1

\* C2: whatever text limit and offset carry, the request is not failed because
\* of it, and the response echoes a limit in [1,100] and an offset >= 0.
C2_NeverRejected ==
  (ApiDone /\ resp.status # 403 /\ thrown \in {NoError, BindError}) =>
    /\ resp.status = 200
    /\ resp.body.limit # <<>> /\ resp.body.limit[1] \in 1..100
    /\ resp.body.offset # <<>> /\ resp.body.offset[1] >= 0

\* The term occurs literally, ignoring case, in one of the searchable columns.
LiteralMatch(row, term) ==
  \E col \in { padStart(NumText(row.vehicle_id), 3, "0"), NumText(row.vehicle_id),
               row.name, row.status, row.delivery_date, row.enter_service_date,
               row.notes, row.model_common_name } :
    ~IsNull(col) /\ includes(toLowerCase(col), toLowerCase(term))

\* C3: when not grouping and search is not empty, every row of data contains
\* the term as a case-insensitive literal substring of a searchable column,
\* and the rows counted and listed are all such rows.
C3_LiteralSubstring ==
  (Ungrouped200 /\ ~Absent(req.params.search)) =>
    LET term == req.params.search
        data == resp.body.data
        hits == { r \in LeftJoin(db) : LiteralMatch(r, term) }
    IN /\ \A i \in 1..Len(data) : LiteralMatch(data[i], term)
       /\ resp.body.total = Cardinality(hits)
       /\ (resp.body.offset = <<0>> /\ Len(data) < resp.body.limit[1]) =>
            hits \subseteq Range(data)

\* C5: when not grouping, data has at most limit rows, in strictly ascending
\* vehicle_id order.
C5_PageBoundedAscending ==
  Ungrouped200 =>
    LET data == resp.body.data
    IN /\ Len(data) <= resp.body.limit[1]
       /\ \A i, j \in 1..Len(data) : i < j => data[i].vehicle_id < data[j].vehicle_id

\* A page cut short by the limit: two rows of a longer listing, out of
\* insertion order.
C5_Witness ==
  /\ Ungrouped200
  /\ resp.body.limit = <<2>>
  /\ Len(resp.body.data) = 2
  /\ resp.body.total > 2
  /\ resp.body.data[1].vehicle_id = 1

\* C9: when the connect or a query throws, the response is the 500 with exactly
\* the fixed message, whatever the error was.
C9_GenericError ==
  (pc = "done" /\ thrown # NoError) =>
    /\ resp.status = 500
    /\ resp.body = [error |-> GenericError]
    /\ thrown \in log

\* A failed listing query, whose message names its SQL.
C9_Witness ==
  /\ pc = "done"
  /\ thrown = QueryError("data")
  /\ resp.status = 500

(***************************************************************************)
(* The connection and the queries of a request                             *)
(***************************************************************************)
\* The request was passed to getTrainCars.
InGetTrainCars == calls[1].client # 0

\* C11: for every request that reaches getTrainCars, client.end() is run
\* exactly once, on every path: never more than once, and once by the time
\* the response is returned, whether the queries succeeded, the connect
\* failed, a query failed, or building the response threw.
C11_ReleasedExactlyOnce ==
  InGetTrainCars => /\ endCalls <= 1
                    /\ pc = "done" => endCalls = 1

\* C12: the service only reads.  In every step, whatever the parameters and
\* the mode, every statement issued so far is a SELECT and the vehicle, model
\* and group records are what they were before the step.
C12_ReadOnly ==
  [][/\ db' = db
     /\ \A i \in Slots : \A q \in QueryNames :
          calls'[i].queries[q] # "none" => Statement(q).verb = "SELECT"]_vars

\* A grouped request has run its four statements against a store with
\* vehicles, models and groups, and was answered.
C12_Witness ==
  /\ pc = "done"
  /\ resp.status = 200
  /\ \A q \in QueryNames : calls[1].queries[q] = "ok"
  /\ db.train_cars # {} /\ db.train_models # {} /\ db.car_marriages # {}

\* C15: on the success path and on the failure path alike, client.end() is
\* called only after the response object of the request has been built.
C15_ReleaseAfterResponse ==
  (InGetTrainCars /\ endCalls > 0) => resp # NoResponse

\* The queries of the request: listing, count and last-modified, and the
\* groups when the request asks for grouping.
QueriesOf(p) ==
  {"data", "count", "lastUpdated"}
  \cup (IF p.groupByMarriage = TRUE_TEXT THEN {"marriages"} ELSE {})

\* C16: the queries of a request are all issued before any of them is
\* awaited, so that they complete in any order; the 200 is built only when
\* every one of them has succeeded; and when one fails the response is the
\* 500 error body, with nothing of the queries that succeeded.
C16_AllOrNothing ==
  InGetTrainCars =>
    LET queries == calls[1].queries
        mine == QueriesOf(req.params)
    IN /\ (\E q \in QueryNames : queries[q] # "none") =>
            /\ \A q \in mine : queries[q] # "none"
            /\ \A q \in QueryNames \ mine : queries[q] = "none"
       /\ resp.status = 200 => \A q \in mine : queries[q] = "ok"
       /\ (pc = "done" /\ \E q \in mine : queries[q] = "failed") =>
            /\ resp.status = 500
            /\ resp.body = [error |-> GenericError]

\* The count had succeeded and the listing was still pending when the
\* last-modified query failed: the response is the 500.
C16_Witness ==
  /\ pc = "done"
  /\ calls[1].queries["count"] = "ok"
  /\ calls[1].queries["data"] = "pending"
  /\ calls[1].queries["lastUpdated"] = "failed"
  /\ resp.status = 500
  /\ db.train_cars # {}

\* C17: grouped mode is selected exactly when the groupByMarriage parameter
\* is the string "true".  Then the group query is issued, every vehicle is
\* listed and marriages is the list of the group records; for an absent or
\* any other value ("TRUE", "1") no group query is issued and marriages is
\* null.
C17_GroupedIffTrue ==
  Ok200 =>
    IF req.params.groupByMarriage = TRUE_TEXT
      THEN /\ calls[1].queries["marriages"] = "ok"
           /\ resp.body.marriages =
                [null |-> FALSE, rows |-> OrderByMarriageId(db.car_marriages)]
           /\ Len(resp.body.data) = Cardinality(db.train_cars)
      ELSE /\ calls[1].queries["marriages"] = "none"
           /\ resp.body.marriages = [null |-> TRUE, rows |-> <<>>]

\* groupByMarriage=TRUE over a store with groups is answered ungrouped.
C17_Witness ==
  /\ Ok200
  /\ req.params.groupByMarriage = <<"T", "R", "U", "E">>
  /\ resp.body.marriages.null
  /\ db.car_marriages # {}

\* The last_modified timestamps of all vehicle records.
Timestamps(store) ==
  { c.last_modified[1] : c \in { x \in store.train_cars : x.last_modified # <<>> } }

\* C18: in both modes and for every search, limit and offset, lastUpdated of
\* a successful response is the greatest last_modified over all vehicle
\* records, matching or not, listed or not; it is null when no record has
\* one.
C18_LastUpdatedIsMax ==
  Ok200 =>
    IF Timestamps(db) = {} THEN resp.body.lastUpdated = <<>>
    ELSE /\ resp.body.lastUpdated # <<>>
         /\ resp.body.lastUpdated[1] \in Timestamps(db)
         /\ \A u \in Timestamps(db) : u <= resp.body.lastUpdated[1]

\* A search that lists nothing still reports the newest timestamp, which is
\* not the first record's.
C18_Witness ==
  /\ Ok200
  /\ resp.body.data = <<>>
  /\ resp.body.total = 0
  /\ resp.body.lastUpdated = <<9>>
  /\ Cardinality(Timestamps(db)) > 2

\* C26: within a request the release of the connection is never begun
\* while a query the request issued is still outstanding, neither resolved
\* nor rejected, also when one of the queries issued together fails before
\* the others have finished.
C26_NoReleaseWhileOutstanding ==
  (InGetTrainCars /\ endCalls > 0) =>
    \A q \in QueryNames : calls[1].queries[q] # "pending"

(***************************************************************************)
(* Requests handled at once                                                *)
(***************************************************************************)
\* Two searches, and a request from a foreign page.
ConcParams ==
  { [search |-> <<"A">>, groupByMarriage |-> NULL, limit |-> <<"1">>, offset |-> NULL],
    [search |-> NULL, groupByMarriage |-> NULL, limit |-> <<"2">>, offset |-> <<"1">>] }

ConcRequests == SameSite(ConcParams) \cup CrossSite

InitConc ==
  /\ db = StoreOf(MaxCars)
  /\ InitWorker
  /\ InitPage

\* The isolate handles a new request whenever the one before awaits: the
\* steps of the invocations interleave in any order.
NextConc ==
  \E i \in Slots :
    \/ Receive(i, ConcRequests)
    \/ Reject(i)
    \/ CallGetTrainCars(i)
    \/ ConnectOk(i)
    \/ ConnectFail(i)
    \/ QueryCompletes(i)
    \/ QueriesFail(i)
    \/ QueriesSucceed(i)
    \/ ReturnResponse(i)
    \/ ResponseThrows(i)
    \/ ReturnError(i)
    \/ EndClient(i)
    \/ Return(i)

SpecConc == InitConc /\ [][NextConc]_vars

\* C14: requests are handled independently.  Two invocations never hold the
\* same Client, and whatever the interleaving, the response of an invocation
\* is one that fetch can return for its own request against the store: the
\* 403 for its own headers, the 200 computed from its own parameters, or the
\* 500.
C14_RequestsIndependent ==
  /\ \A i \in Slots : \A j \in Slots :
       (i # j /\ calls[i].client # 0 /\ calls[j].client # 0) =>
         calls[i].client # calls[j].client
  /\ \A i \in Slots :
       calls[i].pc = "done" => calls[i].resp \in Responses(db, calls[i].req)

\* One request is answered with its listing while another, with other
\* parameters, still awaits its queries.
C14_Witness ==
  /\ calls[1].pc = "done" /\ calls[1].resp.status = 200
  /\ calls[2].pc = "await"
  /\ calls[1].req.params # calls[2].req.params
  /\ calls[1].resp.body.data # <<>>
  /\ clients[calls[2].client] = "connected"

(***************************************************************************)
(* Two exchanges against the same store                                    *)
(***************************************************************************)
PairParams ==
  ParamsOf({NULL, <<"A">>, <<"6", "0">>}, {NULL, TRUE_TEXT},
           {<<"1">>, <<"2">>}, {NULL, <<"1">>, <<"2">>})

PairRequests ==
  SameSite(PairParams)
  \cup CrossSite
  \cup StaticRequests

NextPair ==
  \/ Receive(1, PairRequests)
  \/ ServeStatic(1)
  \/ Reject(1)
  \/ CallGetTrainCars(1)
  \/ ConnectOk(1)
  \/ ConnectFail(1)
  \/ QueryCompletes(1)
  \/ QueriesFail(1)
  \/ QueriesSucceed(1)
  \/ ReturnResponse(1)
  \/ ResponseThrows(1)
  \/ ReturnError(1)
  \/ EndClient(1)
  \/ ReturnLogged(1)

\* Requests follow one another against an unchanged store; prev is the
\* exchange before the current one.
SpecPair == Init /\ [][NextPair]_vars

PrevOk200 == prev.path = API_PATH /\ prev.response.status = 200

PrevUngrouped200 == PrevOk200 /\ prev.params.groupByMarriage # TRUE_TEXT

PrevGrouped200 == PrevOk200 /\ prev.params.groupByMarriage = TRUE_TEXT

SameSearch == OrElse(prev.params.search, <<>>) = OrElse(req.params.search, <<>>)

Ascending(data) ==
  \A i, j \in 1..Len(data) : i < j => data[i].vehicle_id < data[j].vehicle_id

\* C4: when not grouping, total is the number of rows the listing query gives
\* without LIMIT/OFFSET (all vehicles when the search is empty), and two
\* requests with the same search get the same total whatever their limit and
\* offset.
C4_TotalIndependentOfPage ==
  /\ Ungrouped200 =>
       /\ resp.body.total = Len(OrderByVehicleId(Selected(db, req.params)))
       /\ Absent(req.params.search) => resp.body.total = Cardinality(db.train_cars)
  /\ (Ungrouped200 /\ PrevUngrouped200 /\ SameSearch) =>
       resp.body.total = prev.response.body.total

\* Two pages of the same search with different limit and offset, each shorter
\* than the total.
C4_Witness ==
  /\ Ungrouped200 /\ PrevUngrouped200 /\ SameSearch
  /\ req.params.search = <<"6", "0">>
  /\ resp.body.limit # prev.response.body.limit
  /\ resp.body.offset # prev.response.body.offset
  /\ resp.body.total = 3
  /\ Len(resp.body.data) < 3

\* The request after (offset 0, limit L) asks for (offset L, limit L) with
\* the same search, not grouping.
SecondPage ==
  /\ Ungrouped200 /\ PrevUngrouped200 /\ SameSearch
  /\ prev.response.body.offset = <<0>>
  /\ prev.response.body.limit = resp.body.limit
  /\ resp.body.offset = resp.body.limit

\* C6: the pages (offset 0, limit L) and (offset L, limit L) of one search are
\* disjoint, each ascending, and together the first 2L matching rows in
\* vehicle_id order.
C6_PagesConcatenate ==
  SecondPage =>
    LET first == prev.response.body.data
        second == resp.body.data
        L == resp.body.limit[1]
        all == OrderByVehicleId(Selected(db, req.params))
    IN /\ Range(first) \cap Range(second) = {}
       /\ Ascending(first) /\ Ascending(second)
       /\ first \o second = SubSeq(all, 1, Min2(2 * L, Len(all)))

\* Two full pages of two rows from a store of four.
C6_Witness ==
  /\ SecondPage
  /\ resp.body.limit = <<2>>
  /\ Len(prev.response.body.data) = 2
  /\ Len(resp.body.data) = 2

\* C7: when grouping, data is every vehicle row in ascending id order, total
\* the number of vehicles and marriages every group in ascending group id; two
\* grouped requests that differ in search, limit or offset get the same data,
\* total and marriages.
C7_GroupedIgnoresParams ==
  /\ Grouped200 =>
       LET data == resp.body.data
           groups == resp.body.marriages
       IN /\ Range(data) = LeftJoin(db)
          /\ { r.vehicle_id : r \in Range(data) } = { c.vehicle_id : c \in db.train_cars }
          /\ Len(data) = Cardinality(db.train_cars)
          /\ Ascending(data)
          /\ resp.body.total = Cardinality(db.train_cars)
          /\ ~groups.null
          /\ Range(groups.rows) = db.car_marriages
          /\ Len(groups.rows) = Cardinality(db.car_marriages)
          /\ \A i, j \in 1..Len(groups.rows) :
               i < j => groups.rows[i].marriage_id < groups.rows[j].marriage_id
  /\ (Grouped200 /\ PrevGrouped200) =>
       /\ resp.body.data = prev.response.body.data
       /\ resp.body.total = prev.response.body.total
       /\ resp.body.marriages = prev.response.body.marriages

\* Two grouped requests with different search, limit and offset, the later
\* one with a search that selects some vehicles only.
C7_Witness ==
  /\ Grouped200 /\ PrevGrouped200
  /\ req.params.search = <<"6", "0">>
  /\ prev.params.search = <<"A">>
  /\ req.params.limit # prev.params.limit
  /\ req.params.offset # prev.params.offset
  /\ Len(resp.body.data) = 4
  /\ Len(resp.body.marriages.rows) = 2

(***************************************************************************)
(* The origin / referer check                                              *)
(***************************************************************************)
PORT == <<":", "8">>

\* <<Host header, url.host>>: the site, no or an empty Host header, the
\* loopback names with and without port, and two near misses.
BoundaryHosts ==
  { <<SITE, SITE>>, <<NULL, SITE>>, <<<<>>, LOCALHOST \o PORT>>,
    <<LOCALHOST, SITE>>, <<LOCALHOST \o PORT, SITE>>,
    <<LOOPBACK4, SITE>>, <<LOOPBACK4 \o PORT, SITE>>,
    <<LOOPBACK6, SITE>>, <<<<"[">> \o LOOPBACK6 \o <<"]">> \o PORT, SITE>>,
    <<<<"[">> \o LOOPBACK6 \o <<"]">>, SITE>>,
    <<LOCALHOST \o <<".", "i", "o">>, SITE>> }

BoundaryOrigins(h) ==
  { NULL, <<>>, HTTPS \o h, HTTP \o h, HTTPS \o h \o <<"/">>, HTTPS \o EVIL }

BoundaryReferers(h) ==
  { NULL, <<>>, HTTPS \o h \o <<"/">>, HTTP \o h \o <<"/">>, HTTPS \o h,
    HTTPS \o h \o <<"/", "x">>, HTTPS \o h \o <<".">> \o EVIL \o <<"/">>,
    HTTPS \o EVIL \o <<"/">> }

BoundaryRequests ==
  (UNION { { ApiRequest(h, q[1], q[2], NoParams) :
               q \in BoundaryOrigins(OrElse(h[1], h[2]))
                       \X BoundaryReferers(OrElse(h[1], h[2])) } :
           h \in BoundaryHosts })
  \cup StaticRequests

NextBoundary ==
  \/ Receive(1, BoundaryRequests)
  \/ ServeStatic(1)
  \/ Reject(1)
  \/ CallGetTrainCars(1)
  \/ ConnectOk(1)
  \/ ConnectFail(1)
  \/ QueryCompletes(1)
  \/ QueriesFail(1)
  \/ QueriesSucceed(1)
  \/ ReturnResponse(1)
  \/ ResponseThrows(1)
  \/ ReturnError(1)
  \/ EndClient(1)
  \/ Return(1)

SpecBoundary == Init /\ [][NextBoundary]_vars

\* The host is localhost, 127.0.0.1 or ::1, with or without a port.
LoopbackHost(h) ==
  \E name \in { LOCALHOST, LOOPBACK4 } : h = name \/ startsWith(h, name \o <<":">>)
  \/ h = LOOPBACK6
  \/ startsWith(h, <<"[">> \o LOOPBACK6 \o <<"]", ":">>)

\* The header is sent: present, and when nonEmpty is asked, not empty.
Sent(v, nonEmpty) == ~IsNull(v) /\ (nonEmpty => v # <<>>)

\* An Origin value names the serving host h over https, or over http on a
\* loopback host; a Referer value starts so, followed by a slash.
OriginMatches(v, h) == v = HTTPS \o h \/ (LoopbackHost(h) /\ v = HTTP \o h)

RefererMatches(v, h) ==
  \/ startsWith(v, HTTPS \o h \o <<"/">>)
  \/ LoopbackHost(h) /\ startsWith(v, HTTP \o h \o <<"/">>)

\* The request is with the query service, or was.
PassedOn == req.path = API_PATH /\ (pc \in {"connect", "query"} \/ (pc = "done" /\ resp.status # 403))

Refused == ApiDone /\ resp.status = 403

BoundaryHolds(nonEmpty) ==
  LET passes == /\ Sent(req.origin, nonEmpty) => OriginMatches(req.origin, host(req))
                /\ Sent(req.referer, nonEmpty) => RefererMatches(req.referer, host(req))
  IN /\ PassedOn => passes
     /\ Refused => ~passes
     /\ Refused => resp.body = [error |-> Unauthorized] /\ client = "none"
     /\ ApiDone => (PassedOn \/ Refused)

QueryServiceUntouched ==
  /\ calls[1].client = 0
  /\ \A c \in Slots : clients[c] = "none"
  /\ \A q \in QueryNames : calls[1].queries[q] = "none"
  /\ endCalls = 0
  /\ thrown = NoError

\* C25: a request that the origin / referer check rejects with the 403 never
\* reaches the query service: no database client is made, no connection is
\* opened and no query is issued for it.
C25_RejectedNeverQueries ==
  /\ Refused => QueryServiceUntouched
  /\ (req.path = API_PATH /\ pc # "idle"
        /\ (hasInvalidOrigin(req) \/ hasInvalidReferer(req))) => QueryServiceUntouched

\* A request from another site's origin was answered with the 403 over a
\* store that holds vehicles.
C25_Witness ==
  /\ Refused
  /\ req.origin = HTTPS \o EVIL
  /\ req.referer = HTTPS \o EVIL \o <<"/">>
  /\ db.train_cars # {}
  /\ QueryServiceUntouched

(***************************************************************************)
(* The page's script: loadData, displayData, updateStats                   *)
(***************************************************************************)
pageSize == 50

\* Fetches under way at once (sent, being handled, or answered and not yet
\* handled by the page).
MaxInFlight == 2

FALSE_TEXT == <<"f", "a", "l", "s", "e">>

\* The concatenation of a sequence of sequences, by halves.
RECURSIVE Flatten(_)
Flatten(ss) ==
  IF ss = <<>> THEN <<>>
  ELSE IF Len(ss) = 1 THEN ss[1]
  ELSE LET half == Len(ss) \div 2
       IN Flatten(SubSeq(ss, 1, half)) \o Flatten(SubSeq(ss, half + 1, Len(ss)))

\* Array.prototype.join(", ") of texts.
RECURSIVE Join(_)
Join(ts) ==
  IF ts = <<>> THEN <<>>
  ELSE IF Len(ts) = 1 THEN ts[1]
  ELSE ts[1] \o <<",", " ">> \o Join(Tail(ts))

\* vehicleMap[id]: data.forEach fills the map, a later row replacing an
\* earlier one with the same id.  0 when the id is not in the map, else the
\* row's position in data.
vehicleMap(data, id) ==
  LET hits == { i \in 1..Len(data) : data[i].vehicle_id = id }
  IN IF hits = {} THEN 0 ELSE CHOOSE i \in hits : \A j \in hits : j <= i

\* text?.toLowerCase().includes(searchTerm): undefined, so falsy, for null.
fieldMatch(text, searchTerm) ==
  ~IsNull(text) /\ includes(toLowerCase(text), searchTerm)

\* The test of marriage.cars.some(...) for one car.
carMatches(data, carId, searchTerm) ==
  LET at == vehicleMap(data, carId)
  IN at # 0 /\
     LET car == data[at]
     IN \/ includes(padStart(NumText(carId), 3, "0"), searchTerm)
        \/ includes(NumText(carId), searchTerm)
        \/ fieldMatch(car.name, searchTerm)
        \/ fieldMatch(car.status, searchTerm)
        \/ fieldMatch(car.delivery_date, searchTerm)
        \/ fieldMatch(car.enter_service_date, searchTerm)
        \/ fieldMatch(car.notes, searchTerm)
        \/ fieldMatch(car.model_common_name, searchTerm)

\* marriages.filter(...): every marriage without a search, else those with a
\* car that matches.
availableMarriages(data, groups, searchText) ==
  LET searchTerm == toLowerCase(searchText)
      keep(m) == searchTerm = <<>>
                 \/ \E k \in 1..Len(m.cars) : carMatches(data, m.cars[k], searchTerm)
  IN SelectSeq(groups, keep)

\* Array.prototype.slice(start, end)
slice(arr, start, end) == SubSeq(arr, start + 1, Min2(end, Len(arr)))

\* marriages.indexOf(marriage), from 0.
indexOf(arr, x) == (CHOOSE i \in 1..Len(arr) : arr[i] = x /\ \A j \in 1..(i - 1) : arr[j] # x) - 1

isMarkV_From600(id) == id >= 600 /\ id < 7000

isMarkV(id) == id >= 6000 /\ id < 7000

\* String(id).padStart(isMarkV ? 4 : 3, '0')
formattedId(id) == padStart(NumText(id), IF isMarkV(id) THEN 4 ELSE 3, "0")

\* carsInMarriage.find(carId => vehicleMap[carId]): <<>> is undefined.
firstMatchingCar(data, cars) ==
  LET found == { k \in 1..Len(cars) : vehicleMap(data, cars[k]) # 0 }
  IN IF found = {} THEN <<>> ELSE <<cars[CHOOSE k \in found : \A j \in found : k <= j]>>

\* !v for a number or undefined: undefined and 0 are falsy.
falsy(v) == v = <<>> \/ v = <<0>>

\* A table row: a marriage header row, a car row of a marriage, or a row of
\* the flat listing.
TableRow(class, marriageIndex, vehicle, idCell, tooltip, hidden, from) ==
  [class |-> class, marriage |-> marriageIndex, vehicle |-> vehicle, idCell |-> idCell,
   tooltip |-> tooltip, hidden |-> hidden, model |-> from.model_common_name,
   status |-> from.status, delivery_date |-> from.delivery_date,
   enter_service_date |-> from.enter_service_date, expanded |-> FALSE]

carRow(class, marriageIndex, row, hidden) ==
  TableRow(class, marriageIndex, <<row.vehicle_id>>, formattedId(row.vehicle_id),
           isMarkV(row.vehicle_id), hidden, row)

\* The marriage is rendered: it has cars and the first resolvable one is truthy.
rendersMarriage(data, m) ==
  Len(m.cars) > 0 /\ ~falsy(firstMatchingCar(data, m.cars))

\* const { row, index } = vehicleMap[carId] throws for a car that is not in data.
throwsOnMarriage(data, m) ==
  rendersMarriage(data, m) /\ \E k \in 1..Len(m.cars) : vehicleMap(data, m.cars[k]) = 0

\* The rows of one marriage of the page: the header row, then a hidden row
\* for each of its cars.
marriageRows(data, groups, m) ==
  IF ~rendersMarriage(data, m) \/ throwsOnMarriage(data, m) THEN <<>>
  ELSE LET marriageIndex == indexOf(groups, m)
           firstCar == data[vehicleMap(data, firstMatchingCar(data, m.cars)[1])]
       IN <<TableRow("marriage-row", marriageIndex, <<>>,
                     Join([k \in 1..Len(m.cars) |-> formattedId(m.cars[k])]),
                     FALSE, FALSE, firstCar)>>
          \o [k \in 1..Len(m.cars) |->
                carRow("car-row", marriageIndex, data[vehicleMap(data, m.cars[k])], TRUE)]

\* displayData(data), with the checkbox, the marriages, currentSearch and
\* currentPage it reads: the content it writes, filteredMarriagesCount after
\* it, and whether it threw.
displayData(data, checked, groups, searchText, page, oldCount) ==
  IF Len(data) = 0
    THEN [content |-> [kind |-> "empty", message |-> "No train cars found", rows |-> <<>>],
          filteredMarriagesCount |-> oldCount, threw |-> FALSE]
  ELSE IF checked /\ ~groups.null
    THEN LET available == availableMarriages(data, groups.rows, searchText)
             paginatedMarriages == slice(available, page * pageSize, page * pageSize + pageSize)
             threw == \E i \in 1..Len(paginatedMarriages) :
                        throwsOnMarriage(data, paginatedMarriages[i])
         IN [content |->
               IF threw
                 THEN [kind |-> "error", message |-> "TypeError", rows |-> <<>>]
                 ELSE [kind |-> "table", message |-> "",
                       rows |-> Flatten([i \in 1..Len(paginatedMarriages) |->
                                  marriageRows(data, groups.rows, paginatedMarriages[i])])],
             filteredMarriagesCount |-> Len(available),
             threw |-> threw]
  ELSE [content |-> [kind |-> "table", message |-> "",
                     rows |-> [i \in 1..Len(data) |-> carRow("row", 0 - 1, data[i], FALSE)]],
        filteredMarriagesCount |-> oldCount, threw |-> FALSE]

\* Math.ceil(a / b) for a >= 0, b > 0
ceilDiv(a, b) == (a + b - 1) \div b

updateStats_NextNeverDisabled(checked, groups, searchText, filteredCount, records, page) ==
  LET totalItems == IF checked /\ ~groups.null
                      THEN (IF searchText # <<>> THEN filteredCount ELSE Len(groups.rows))
                      ELSE records
      end == Min2((page + 1) * pageSize, totalItems)
      totalPages == ceilDiv(totalItems, pageSize)
  IN [shown |-> TRUE, totalItems |-> totalItems,
      totalPages |-> totalPages,
      start |-> page * pageSize + 1, end |-> end,
      pageInfo |-> <<page + 1, IF totalPages = 0 THEN 1 ELSE totalPages>>,
      prevDisabled |-> page = 0, nextDisabled |-> FALSE]

\* updateStats(), from the state displayData left.
updateStats(checked, groups, searchText, filteredCount, records, page) ==
  LET totalItems == IF checked /\ ~groups.null
                      THEN (IF searchText # <<>> THEN filteredCount ELSE Len(groups.rows))
                      ELSE records
      end == Min2((page + 1) * pageSize, totalItems)
      totalPages == ceilDiv(totalItems, pageSize)
  IN [shown |-> TRUE, totalItems |-> totalItems,
      totalPages |-> totalPages,
      start |-> page * pageSize + 1, end |-> end,
      pageInfo |-> <<page + 1, IF totalPages = 0 THEN 1 ELSE totalPages>>,
      prevDisabled |-> page = 0, nextDisabled |-> end >= totalItems]

\* The request fetch(url) sends: the page's own origin, pageSize as limit.
fetchRequest(page, searchTerm, checked) ==
  [path |-> API_PATH, hostHeader |-> SITE, urlHost |-> SITE, origin |-> NULL,
   referer |-> HTTPS \o SITE \o <<"/">>,
   params |-> [search |-> searchTerm,
               groupByMarriage |-> IF checked THEN TRUE_TEXT ELSE FALSE_TEXT,
               limit |-> NumText(pageSize),
               offset |-> NumText(page * pageSize)]]

InFlight == Len(outbox) + Len(inbox) + (IF pc = "idle" THEN 0 ELSE 1)

\* The overlay, while open, covers the page and its controls.
PageReachable == ~modal.open

\* loadData(page), up to its await fetch(url).
loadData(page) ==
  /\ InFlight < MaxInFlight
  /\ currentPage' = page
  /\ currentSearch' = searchInput
  /\ content' = Loading
  /\ outbox' = Append(outbox, fetchRequest(page, searchInput, groupByMarriageInput))
  /\ UNCHANGED <<totalRecords, currentData, lastUpdated, marriages,
                 filteredMarriagesCount, stats, modal, inbox>>
  /\ UNCHANGED svars

\* Texts typed into the search box.
SearchInputs == { <<>>, <<"0">>, <<"6">> }

\* Texts typed into the search box over the fleet store.
PagingInputs == { <<>>, <<"0">> }

\* The user edits the search box, to one of texts.
TypeSearch(texts) ==
  /\ PageReachable
  /\ \E t \in texts : t # searchInput /\ searchInput' = t
  /\ UNCHANGED <<groupByMarriageInput, currentPage, currentSearch, totalRecords,
                 currentData, lastUpdated, marriages, filteredMarriagesCount, content,
                 stats, modal, outbox, inbox>>
  /\ UNCHANGED svars

\* The Search button or the Enter key: loadData(0).
SearchClick ==
  /\ PageReachable
  /\ loadData(0)
  /\ UNCHANGED <<searchInput, groupByMarriageInput>>

\* The checkbox changes: onchange="loadData(0)".
ToggleGroupByMarriage ==
  /\ PageReachable
  /\ groupByMarriageInput' = ~groupByMarriageInput
  /\ InFlight < MaxInFlight
  /\ currentPage' = 0
  /\ currentSearch' = searchInput
  /\ content' = Loading
  /\ outbox' = Append(outbox, fetchRequest(0, searchInput, ~groupByMarriageInput))
  /\ UNCHANGED <<searchInput, totalRecords, currentData, lastUpdated, marriages,
                 filteredMarriagesCount, stats, modal, inbox>>
  /\ UNCHANGED svars

\* clearSearch(): the box is emptied, then loadData(0).
clearSearch ==
  /\ PageReachable
  /\ searchInput' = <<>>
  /\ InFlight < MaxInFlight
  /\ currentPage' = 0
  /\ currentSearch' = <<>>
  /\ content' = Loading
  /\ outbox' = Append(outbox, fetchRequest(0, <<>>, groupByMarriageInput))
  /\ UNCHANGED <<groupByMarriageInput, totalRecords, currentData, lastUpdated, marriages,
                 filteredMarriagesCount, stats, modal, inbox>>
  /\ UNCHANGED svars

\* prevPage(): loadData(currentPage - 1) unless on the first page.
prevPageMoves(page) == page > 0

\* nextPage(): loadData(currentPage + 1) while items lie beyond the page; the
\* items are the marriages when grouping, else the records.
nextPageMoves(checked, groups, records, page) ==
  LET totalItems == IF checked /\ ~groups.null THEN Len(groups.rows) ELSE records
  IN (page + 1) * pageSize < totalItems

\* A button of the pagination bar can be clicked: the bar is shown and the
\* button is not disabled.
CanClick(disabled) == PageReachable /\ stats.shown /\ ~disabled

\* The Previous button.
prevPage ==
  /\ CanClick(stats.prevDisabled)
  /\ prevPageMoves(currentPage)
  /\ loadData(currentPage - 1)
  /\ UNCHANGED <<searchInput, groupByMarriageInput>>

\* The Next button.
nextPage ==
  /\ CanClick(stats.nextDisabled)
  /\ nextPageMoves(groupByMarriageInput, marriages, totalRecords, currentPage)
  /\ loadData(currentPage + 1)
  /\ UNCHANGED <<searchInput, groupByMarriageInput>>

\* The positions in currentData that the rows of the table pass to openModal:
\* a row of the flat listing passes its own, a car row of a marriage the one
\* vehicleMap holds for its car.
RowIndexes ==
  { (IF content.rows[i].class = "row" THEN i
     ELSE vehicleMap(currentData, content.rows[i].vehicle[1])) - 1 :
    i \in { j \in 1..Len(content.rows) : content.rows[j].class # "marriage-row" } }

\* openModal(index), from a click on a row: the overlay shows the fields of
\* currentData[index], its vehicle_id formatted as in the table.
openModal ==
  /\ PageReachable
  /\ \E index \in RowIndexes :
       /\ index + 1 \in 1..Len(currentData)
       /\ LET row == currentData[index + 1]
          IN modal' = [open |-> TRUE, vehicle |-> <<row.vehicle_id>>,
                       idCell |-> formattedId(row.vehicle_id),
                       tooltip |-> isMarkV(row.vehicle_id)]
  /\ UNCHANGED <<searchInput, groupByMarriageInput, currentPage, currentSearch,
                 totalRecords, currentData, lastUpdated, marriages,
                 filteredMarriagesCount, content, stats, outbox, inbox>>
  /\ UNCHANGED svars

\* The position in the table of the n-th row (from 0) of class marriage-row,
\* 0 when there are not that many: querySelectorAll('.marriage-row')[n].
nthMarriageRow(rows, n) ==
  LET headers == { i \in 1..Len(rows) : rows[i].class = "marriage-row" }
      at == { i \in headers : Cardinality({ j \in headers : j < i }) = n }
  IN IF at = {} THEN 0 ELSE CHOOSE i \in at : TRUE

\* The table after toggleMarriage(marriageIndex): the car rows with that
\* data-marriage change their hidden class, and the marriage row that stands
\* at that position among the marriage rows, if any, its expanded class.
toggled(rows, marriageIndex) ==
  [i \in 1..Len(rows) |->
     IF rows[i].class = "car-row" /\ rows[i].marriage = marriageIndex
       THEN [rows[i] EXCEPT !.hidden = ~@]
     ELSE IF i = nthMarriageRow(rows, marriageIndex)
       THEN [rows[i] EXCEPT !.expanded = ~@]
     ELSE rows[i]]

\* toggleMarriage(marriageIndex), from a click on a marriage row.
toggleMarriage ==
  /\ PageReachable
  /\ \E i \in 1..Len(content.rows) :
       /\ content.rows[i].class = "marriage-row"
       /\ content' = [content EXCEPT !.rows = toggled(@, content.rows[i].marriage)]
  /\ UNCHANGED <<searchInput, groupByMarriageInput, currentPage, currentSearch,
                 totalRecords, currentData, lastUpdated, marriages,
                 filteredMarriagesCount, stats, modal, outbox, inbox>>
  /\ UNCHANGED svars

\* closeModal(): the overlay is hidden, its body left as it is.
closeModal ==
  /\ modal.open
  /\ modal' = [modal EXCEPT !.open = FALSE]
  /\ UNCHANGED <<searchInput, groupByMarriageInput, currentPage, currentSearch,
                 totalRecords, currentData, lastUpdated, marriages,
                 filteredMarriagesCount, content, stats, outbox, inbox>>
  /\ UNCHANGED svars

\* The worker takes up the oldest fetch.
TakeFetch ==
  /\ pc = "idle"
  /\ outbox # <<>>
  /\ Becomes(1, [calls[1] EXCEPT !.req = Head(outbox), !.pc = "fetch"])
  /\ outbox' = Tail(outbox)
  /\ UNCHANGED <<db, clients, prev>>
  /\ UNCHANGED <<searchInput, groupByMarriageInput, currentPage, currentSearch,
                 totalRecords, currentData, lastUpdated, marriages,
                 filteredMarriagesCount, content, stats, modal, inbox>>

\* The worker's response is on its way to the page.
SendResponse ==
  /\ Finished(1)
  /\ inbox' = Append(inbox, resp)
  /\ UNCHANGED <<db, prev>>
  /\ UNCHANGED <<searchInput, groupByMarriageInput, currentPage, currentSearch,
                 totalRecords, currentData, lastUpdated, marriages,
                 filteredMarriagesCount, content, stats, modal, outbox>>

RemoveAt(q, i) == SubSeq(q, 1, i - 1) \o SubSeq(q, i + 1, Len(q))

\* The message of the SyntaxError that response.json() throws for a body that
\* is not JSON.
JsonSyntaxError == "Unexpected token '<'"

FailedToFetch == "Failed to fetch data"

\* Responses that the platform gives in place of the worker's: its error page
\* for a worker that threw or ran out of its limits, which is HTML, and a JSON
\* body without an error field.
PlatformResponses ==
  { [status |-> 500, body |-> [html |-> TRUE], headers |-> {}],
    [status |-> 503, body |-> [message |-> TRUE], headers |-> {"Content-Type"}] }

\* The platform answers the oldest fetch itself.
PlatformAnswers ==
  /\ outbox # <<>>
  /\ Len(inbox) < MaxInFlight
  /\ \E r \in PlatformResponses : inbox' = Append(inbox, r)
  /\ outbox' = Tail(outbox)
  /\ UNCHANGED <<searchInput, groupByMarriageInput, currentPage, currentSearch,
                 totalRecords, currentData, lastUpdated, marriages,
                 filteredMarriagesCount, content, stats, modal>>
  /\ UNCHANGED svars

\* error.message in the catch block of loadData for a response that is not
\* ok: `await response.json()` comes first and throws for a body that is not
\* JSON; else new Error(json.error || 'Failed to fetch data').
failureMessage(response) ==
  IF "html" \in DOMAIN response.body THEN JsonSyntaxError
  ELSE IF "error" \in DOMAIN response.body /\ response.body.error # ""
    THEN response.body.error
  ELSE FailedToFetch

\* loadData after its await, for a response that is not ok: the catch block
\* shows error.message.
FetchFailed ==
  \E i \in 1..Len(inbox) :
    /\ inbox[i].status # 200
    /\ content' = [kind |-> "error", message |-> failureMessage(inbox[i]), rows |-> <<>>]
    /\ inbox' = RemoveAt(inbox, i)
    /\ UNCHANGED <<searchInput, groupByMarriageInput, currentPage, currentSearch,
                   totalRecords, currentData, lastUpdated, marriages,
                   filteredMarriagesCount, stats, modal, outbox>>
    /\ UNCHANGED svars

FetchSucceeded_LatestOnly ==
  \E i \in 1..Len(inbox) :
    /\ inbox[i].status = 200
    /\ IF i < Len(inbox) \/ outbox # <<>> \/ pc # "idle"
         THEN UNCHANGED <<totalRecords, lastUpdated, marriages, currentData, content,
                          filteredMarriagesCount, stats>>
         ELSE LET json == inbox[i].body
                  shown == displayData(json.data, groupByMarriageInput, json.marriages,
                                       currentSearch, currentPage, filteredMarriagesCount)
              IN /\ totalRecords' = json.total
                 /\ lastUpdated' = json.lastUpdated
                 /\ marriages' = json.marriages
                 /\ currentData' = json.data
                 /\ content' = shown.content
                 /\ filteredMarriagesCount' = shown.filteredMarriagesCount
                 /\ stats' = IF shown.threw THEN stats
                             ELSE updateStats(groupByMarriageInput, json.marriages,
                                              currentSearch, shown.filteredMarriagesCount,
                                              json.total, currentPage)
    /\ inbox' = RemoveAt(inbox, i)
    /\ UNCHANGED <<searchInput, groupByMarriageInput, currentPage, currentSearch, modal,
                   outbox>>
    /\ UNCHANGED svars

\* loadData after its await, for an ok response: the globals are set, then
\* displayData(json.data) and updateStats(); updateStats is skipped when
\* displayData throws.  Responses are handled in the order they arrive, which
\* need not be the order of the fetches.
FetchSucceeded ==
  \E i \in 1..Len(inbox) :
    /\ inbox[i].status = 200
    /\ LET json == inbox[i].body
           shown == displayData(json.data, groupByMarriageInput, json.marriages,
                                currentSearch, currentPage, filteredMarriagesCount)
       IN /\ totalRecords' = json.total
          /\ lastUpdated' = json.lastUpdated
          /\ marriages' = json.marriages
          /\ currentData' = json.data
          /\ content' = shown.content
          /\ filteredMarriagesCount' = shown.filteredMarriagesCount
          /\ stats' = IF shown.threw THEN stats
                      ELSE updateStats(groupByMarriageInput, json.marriages, currentSearch,
                                       shown.filteredMarriagesCount, json.total, currentPage)
    /\ inbox' = RemoveAt(inbox, i)
    /\ UNCHANGED <<searchInput, groupByMarriageInput, currentPage, currentSearch, modal,
                   outbox>>
    /\ UNCHANGED svars

NextPage ==
  \/ TypeSearch(SearchInputs)
  \/ SearchClick
  \/ ToggleGroupByMarriage
  \/ clearSearch
  \/ toggleMarriage
  \/ openModal
  \/ closeModal
  \/ TakeFetch
  \/ Fetch(1)
  \/ PlatformAnswers
  \/ SendResponse
  \/ FetchFailed
  \/ FetchSucceeded

\* The page and the worker together: every request is a fetch of the page.
\* On a store of at most MaxCars rows the listing is one page, which the
\* Previous and Next buttons never leave.
SpecPage == Init /\ [][NextPage]_vars

\* The page over the fleet store, or over an empty one.
InitPaging ==
  /\ db \in { StoreOf(0), Fleet }
  /\ InitWorker
  /\ InitPage

NextPaging ==
  \/ TypeSearch(PagingInputs)
  \/ SearchClick
  \/ ToggleGroupByMarriage
  \/ clearSearch
  \/ prevPage
  \/ nextPage
  \/ TakeFetch
  \/ Fetch(1)
  \/ SendResponse
  \/ FetchFailed
  \/ FetchSucceeded

\* The page and the worker over a listing of several pages.
SpecPaging == InitPaging /\ [][NextPaging]_vars

(***************************************************************************)
(* The two search tests, side by side                                      *)
(***************************************************************************)
\* Search terms: none, digits of ids, letters in either case, and the
\* characters that ILIKE reads as wildcards.
MatchTerms ==
  { <<>>, <<"0">>, <<"6">>, <<"6", "0">>, <<"A", "B">>, <<"x">>, <<"i", "n">>,
    <<"_">>, <<"%">> }

\* The worker has received the page's fetch of the flat listing for a term
\* typed into the search box; the page holds nothing yet.
InitMatch ==
  /\ db \in Stores
  /\ \E t \in MatchTerms :
       /\ searchInput = t
       /\ currentSearch = t
       /\ calls = [i \in Slots |->
                     IF i = 1 THEN [NoCall EXCEPT !.req = fetchRequest(0, t, FALSE),
                                                  !.pc = "fetch"]
                     ELSE NoCall]
  /\ clients = [c \in Slots |-> "none"]
  /\ prev = NoExchange
  /\ groupByMarriageInput = FALSE
  /\ currentPage = 0
  /\ totalRecords = 0
  /\ currentData = <<>>
  /\ lastUpdated = <<>>
  /\ marriages = NoMarriages
  /\ filteredMarriagesCount = 0
  /\ content = Loading
  /\ stats = NoStats
  /\ modal = NoModal
  /\ outbox = <<>>
  /\ inbox = <<>>

\* The test of marriage.cars.some(...) applied to every vehicle of the store
\* for currentSearch, the vehicles that pass shown as rows.
MemberTest ==
  /\ content = Loading
  /\ LET data == OrderByVehicleId(LeftJoin(db))
         searchTerm == toLowerCase(currentSearch)
         passes(row) == carMatches(data, row.vehicle_id, searchTerm)
         passing == SelectSeq(data, passes)
     IN content' = [kind |-> "table", message |-> "",
                    rows |-> [i \in 1..Len(passing) |->
                                carRow("row", 0 - 1, passing[i], FALSE)]]
  /\ UNCHANGED <<searchInput, groupByMarriageInput, currentPage, currentSearch,
                 totalRecords, currentData, lastUpdated, marriages,
                 filteredMarriagesCount, stats, modal, outbox, inbox>>
  /\ UNCHANGED svars

NextMatch ==
  \/ Fetch(1)
  \/ MemberTest

\* The server's WHERE clause and the page's member test on the same store
\* and term.
SpecMatch == InitMatch /\ [][NextMatch]_vars

(***************************************************************************)
(* Properties of the page                                                  *)
(***************************************************************************)
\* The content area shows the grouped table of a search.
GroupedSearchView ==
  /\ content.kind = "table"
  /\ groupByMarriageInput
  /\ ~marriages.null
  /\ currentSearch # <<>>

\* A member vehicle of the group matches the search term.
MemberMatches(m) ==
  \E k \in 1..Len(m.cars) :
    \E r \in Range(currentData) :
      r.vehicle_id = m.cars[k] /\ LiteralMatch(r, currentSearch)

\* The positions, in marriages, of the groups with a matching member.
KeptGroups == { j \in 1..Len(marriages.rows) : MemberMatches(marriages.rows[j]) }

\* The kept groups that fall in the window of the current page.
KeptOnPage ==
  { j \in KeptGroups :
      LET rank == Cardinality({ i \in KeptGroups : i <= j })
      IN rank > currentPage * pageSize /\ rank <= (currentPage + 1) * pageSize }

\* The table rows of the group at position j of marriages.
RowsOfGroup(j) ==
  LET ofGroup(r) == r.marriage = j - 1
  IN SelectSeq(content.rows, ofGroup)

\* C8: in the grouped view of a search a group is kept exactly when one of
\* its member vehicles matches; a kept group is shown whole, its header row
\* and then a row for every member, matching or not; a group with no
\* matching member is removed as a whole.
C8_KeptGroupsShownWhole ==
  GroupedSearchView =>
    /\ filteredMarriagesCount = Cardinality(KeptGroups)
    /\ \A j \in 1..Len(marriages.rows) :
         LET rows == RowsOfGroup(j)
             cars == marriages.rows[j].cars
         IN IF j \in KeptOnPage
              THEN /\ Len(rows) = 1 + Len(cars)
                   /\ rows[1].class = "marriage-row"
                   /\ \A k \in 1..Len(cars) :
                        rows[k + 1].class = "car-row" /\ rows[k + 1].vehicle = <<cars[k]>>
              ELSE rows = <<>>

\* The ids of the Mark V band.
InBand(id) == id \in 6000..6999

\* A text with zeros put before it up to a width.
PadTo(text, width) ==
  IF Len(text) >= width THEN text
  ELSE [i \in 1..(width - Len(text)) |-> "0"] \o text

\* A vehicle id as it is to be shown: four digits in the band, else three.
IdShown(id) == PadTo(NumText(id), IF InBand(id) THEN 4 ELSE 3)

\* Ids at and next to the ends of the band, and at the ends of the widths.
EdgeIds == { 0, 9, 10, 99, 100, 999, 1000, 5999, 6000, 6001, 6999, 7000, 9999, 10000 }

\* The script's formatting of an id agrees with the band rule.
FormatsById ==
  \A id \in EdgeIds : formattedId(id) = IdShown(id) /\ isMarkV(id) = InBand(id)

\* The rows of vehicles (flat rows, member rows of a group) show the id by
\* the band rule, with the tooltip exactly in the band.
VehicleRowsById ==
  \A i \in 1..Len(content.rows) :
    LET r == content.rows[i]
    IN r.class # "marriage-row" =>
         /\ r.idCell = IdShown(r.vehicle[1])
         /\ r.tooltip = InBand(r.vehicle[1])

\* The detail overlay shows the id by the band rule, with the tooltip
\* exactly in the band.
OverlayById ==
  modal.vehicle # <<>> =>
    /\ modal.idCell = IdShown(modal.vehicle[1])
    /\ modal.tooltip = InBand(modal.vehicle[1])

\* The cars of the group a header row stands for.
HeaderCars(r) == marriages.rows[r.marriage + 1].cars

\* The id list of every group header row shows each member's id by the band
\* rule, the ids joined by ", ".
HeaderListsById ==
  \A i \in 1..Len(content.rows) :
    LET r == content.rows[i]
    IN r.class = "marriage-row" =>
         r.idCell = Join([k \in 1..Len(HeaderCars(r)) |-> IdShown(HeaderCars(r)[k])])

\* C13, as stated: at every place where the page renders a vehicle id (flat
\* rows, member rows of a group, the id list of a group header row, the
\* detail overlay) an id in [6000,6999] is zero-padded to 4 digits and
\* carries the tooltip, and every other id is zero-padded to 3 digits and
\* carries none.
C13_TooltipEverywhere ==
  /\ FormatsById
  /\ VehicleRowsById
  /\ OverlayById
  /\ HeaderListsById
  /\ \A i \in 1..Len(content.rows) :
       LET r == content.rows[i]
       IN r.class = "marriage-row" =>
            r.tooltip = (\E k \in 1..Len(HeaderCars(r)) : InBand(HeaderCars(r)[k]))

\* C13, amended: in flat rows, member rows of a group and the detail overlay
\* an id in [6000,6999] is zero-padded to 4 digits and carries the tooltip,
\* and every other id is zero-padded to 3 digits and carries none; the id
\* list of a group header row pads each id the same way and carries no
\* tooltip for any id.
C13_IdsRendered ==
  /\ FormatsById
  /\ VehicleRowsById
  /\ OverlayById
  /\ HeaderListsById
  /\ \A i \in 1..Len(content.rows) :
       content.rows[i].class = "marriage-row" => ~content.rows[i].tooltip

\* A grouped table whose header row lists a Mark V id beside another id, its
\* member rows below it, and the overlay open on the Mark V car.
C13_Witness ==
  /\ content.kind = "table"
  /\ \E i \in 1..Len(content.rows) :
       /\ content.rows[i].class = "marriage-row"
       /\ content.rows[i].idCell = <<"6", "0", "0", "1", ",", " ", "6", "0", "1">>
       /\ content.rows[i + 1].class = "car-row"
       /\ content.rows[i + 1].tooltip
       /\ ~content.rows[i + 2].tooltip
  /\ \E i \in 1..Len(content.rows) :
       content.rows[i].class = "car-row" /\ content.rows[i].idCell = <<"0", "0", "1">>
  /\ modal.open
  /\ modal.idCell = <<"6", "0", "0", "1">>
  /\ modal.tooltip

\* displayData and updateStats have run for the latest response and no
\* loadData since.
AfterDisplay == content.kind \in {"table", "empty"}

\* The page groups: the checkbox is checked and the response has marriages.
Grouping == groupByMarriageInput /\ ~marriages.null

\* The least number of pages of pageSize that hold total items.
PagesFor(total) ==
  CHOOSE n \in 0..total : n * pageSize >= total /\ (n = 0 \/ (n - 1) * pageSize < total)

\* The Next control is to be disabled on a page for a total.
NextOff(page, total) ==
  (IF (page + 1) * pageSize < total THEN (page + 1) * pageSize ELSE total) >= total

\* C19: without grouping, after each successful fetch the total item count
\* is the server's total, the page count is ceil(total / pageSize), shown as
\* 1 when the total is 0, Previous is disabled exactly on page 0 and Next
\* exactly when min((page+1)*pageSize, total) >= total; prevPage and nextPage
\* change the page only when the control would be enabled.
C19_UngroupedPaging ==
  ~Grouping =>
    /\ AfterDisplay =>
         /\ stats.shown
         /\ stats.totalItems = totalRecords
         /\ stats.pageInfo = <<currentPage + 1,
                               IF totalRecords = 0 THEN 1 ELSE PagesFor(totalRecords)>>
         /\ stats.prevDisabled = (currentPage = 0)
         /\ stats.nextDisabled = NextOff(currentPage, totalRecords)
    /\ prevPageMoves(currentPage) => currentPage # 0
    /\ nextPageMoves(groupByMarriageInput, marriages, totalRecords, currentPage)
         => ~NextOff(currentPage, totalRecords)

\* The second and last page of the flat listing of the fleet, reached by
\* Next: Previous is enabled, Next is not.
C19_Witness ==
  /\ ~Grouping
  /\ content.kind = "table"
  /\ currentPage = 1
  /\ totalRecords = FleetCars
  /\ Len(content.rows) = FleetCars - pageSize
  /\ stats.pageInfo = <<2, 2>>
  /\ ~stats.prevDisabled
  /\ stats.nextDisabled

\* The positions, in marriages, of the groups that pass the search filter:
\* all of them when the search is empty.
FilteredGroups ==
  IF currentSearch = <<>> THEN 1..Len(marriages.rows) ELSE KeptGroups

\* The filtered groups in the window of the current page.
FilteredOnPage ==
  { j \in FilteredGroups :
      LET rank == Cardinality({ i \in FilteredGroups : i <= j })
      IN rank > currentPage * pageSize /\ rank <= (currentPage + 1) * pageSize }

\* The positions, in marriages, of the groups of the header rows, in the
\* order of the table.
HeaderGroups ==
  LET isHeader(r) == r.class = "marriage-row"
      headers == SelectSeq(content.rows, isHeader)
  IN [i \in 1..Len(headers) |-> headers[i].marriage + 1]

\* C20: when grouping, the total for the page count and for Next is the
\* number of groups that pass the search filter (all groups when the search
\* is empty), and the groups rendered on page p are exactly the filtered
\* groups at positions [p*pageSize, (p+1)*pageSize) of the filtered list, in
\* the server's order, so at most pageSize groups a page.
C20_GroupedPaging ==
  (Grouping /\ AfterDisplay) =>
    /\ stats.totalItems = Cardinality(FilteredGroups)
    /\ stats.pageInfo[2] = (IF FilteredGroups = {} THEN 1
                            ELSE PagesFor(Cardinality(FilteredGroups)))
    /\ stats.nextDisabled = NextOff(currentPage, Cardinality(FilteredGroups))
    /\ content.kind = "table" =>
         /\ Len(HeaderGroups) <= pageSize
         /\ Range(HeaderGroups) = FilteredOnPage
         /\ \A i \in 1..(Len(HeaderGroups) - 1) : HeaderGroups[i] < HeaderGroups[i + 1]

\* The positions, in marriages, of the groups with a member vehicle that
\* matches a term.
GroupsPassing(term) ==
  { j \in 1..Len(marriages.rows) :
      \E k \in 1..Len(marriages.rows[j].cars) :
        \E r \in Range(currentData) :
          r.vehicle_id = marriages.rows[j].cars[k] /\ LiteralMatch(r, term) }

\* C21: when grouping with a non-empty search, nextPage advances the page
\* only if (currentPage+1)*pageSize is less than the number of groups that
\* pass the filter, so it never moves beyond the end of the filtered list.
C21_NextWithinFilteredGroups ==
  [][(Grouping /\ currentSearch' # <<>> /\ currentPage' = currentPage + 1)
       => (currentPage + 1) * pageSize < Cardinality(GroupsPassing(currentSearch'))]_vars

\* The first member of a group that is among the fetched vehicles, as its
\* row of currentData; <<>> when none is.
FirstResolved(cars) ==
  LET resolved == { k \in 1..Len(cars) :
                      \E r \in Range(currentData) : r.vehicle_id = cars[k] }
  IN IF resolved = {} THEN <<>>
     ELSE LET first == CHOOSE k \in resolved : \A j \in resolved : k <= j
          IN <<CHOOSE r \in Range(currentData) : r.vehicle_id = cars[first]>>

\* The group at position j of marriages stands in the table as one header
\* row, with the model, status and dates of its first resolved member, and
\* then one row for each member in the group's order.
GroupShown(j) ==
  LET cars == marriages.rows[j].cars
      from == FirstResolved(cars)
  IN \E p \in 1..Len(content.rows) :
       /\ p + Len(cars) <= Len(content.rows)
       /\ SubSeq(content.rows, p, p + Len(cars)) = RowsOfGroup(j)
       /\ content.rows[p].class = "marriage-row"
       /\ from # <<>>
       /\ content.rows[p].model = from[1].model_common_name
       /\ content.rows[p].status = from[1].status
       /\ content.rows[p].delivery_date = from[1].delivery_date
       /\ content.rows[p].enter_service_date = from[1].enter_service_date
       /\ \A k \in 1..Len(cars) :
            /\ content.rows[p + k].class = "car-row"
            /\ content.rows[p + k].vehicle = <<cars[k]>>

\* Every group in the window of the current page is shown.
WindowShown ==
  (Grouping /\ content.kind = "table") => \A j \in FilteredOnPage : GroupShown(j)

\* A step that renders the table leaves every member row hidden.
RenderedHidden ==
  (content'.kind = "table" /\ inbox' # inbox /\ Len(inbox') < Len(inbox)) =>
    \A i \in 1..Len(content'.rows) :
      content'.rows[i].class = "car-row" => content'.rows[i].hidden

\* The member rows of the table that are hidden, by position.
HiddenRows(rows) == { i \in 1..Len(rows) : rows[i].class = "car-row" /\ rows[i].hidden }

\* The positions of the member rows of the group with a marriage index.
MemberRows(rows, marriageIndex) ==
  { i \in 1..Len(rows) : rows[i].class = "car-row" /\ rows[i].marriage = marriageIndex }

\* A click on a header row changes the visibility of the member rows of its
\* group, all of them, and of no other row.
ToggleOwnRows ==
  (content.kind = "table" /\ content'.kind = "table" /\ inbox' = inbox
     /\ content' # content) =>
    \E i \in 1..Len(content.rows) :
      /\ content.rows[i].class = "marriage-row"
      /\ Len(content'.rows) = Len(content.rows)
      /\ (HiddenRows(content'.rows) \ HiddenRows(content.rows))
           \cup (HiddenRows(content.rows) \ HiddenRows(content'.rows))
         = MemberRows(content.rows, content.rows[i].marriage)
      /\ MemberRows(content.rows, content.rows[i].marriage) # {}

\* C22: when grouping, every group in the window of the current page gives
\* exactly one header row (model, status and dates of its first member that
\* resolves to a fetched vehicle) followed by exactly one row for each member
\* in the group's order; all member rows are hidden after rendering; a click
\* on a header row toggles the member rows of that group and of no other.
C22_GroupRowsAndToggle ==
  /\ []WindowShown
  /\ [][RenderedHidden]_vars
  /\ [][ToggleOwnRows]_vars

\* The step handles the response at position i of those on their way to the
\* page, an ok one.
HandlesOk(i) == inbox[i].status = 200 /\ inbox' = RemoveAt(inbox, i)

\* An ok response that is handled is put on display, whatever fetches were
\* sent after its own: the rows, the total, the groups and the last-updated
\* value become those of the response.
Overwrites ==
  \A i \in 1..Len(inbox) :
    HandlesOk(i) =>
      /\ currentData' = inbox[i].body.data
      /\ totalRecords' = inbox[i].body.total
      /\ marriages' = inbox[i].body.marriages
      /\ lastUpdated' = inbox[i].body.lastUpdated
      /\ content' = displayData(inbox[i].body.data, groupByMarriageInput,
                                inbox[i].body.marriages, currentSearch, currentPage,
                                filteredMarriagesCount).content

\* No fetch is cancelled: a request leaves those sent only when the worker
\* takes it up or the platform answers it, the worker gives up no request
\* before its response, and a response leaves those on their way only when
\* the page handles it.
NeverCancelled ==
  /\ outbox' # outbox =>
       \/ outbox # <<>> /\ outbox' = Tail(outbox) /\ calls'[1].req = Head(outbox)
       \/ outbox # <<>> /\ outbox' = Tail(outbox) /\ Len(inbox') = Len(inbox) + 1
       \/ Len(outbox') = Len(outbox) + 1 /\ SubSeq(outbox', 1, Len(outbox)) = outbox
  /\ pc = "fetch" => pc' = "fetch" \/ (pc' = "done" /\ calls'[1].req = req)
  /\ pc = "done" => pc' = "done" \/ inbox' = Append(inbox, resp)
  /\ Len(inbox') < Len(inbox) =>
       \E i \in 1..Len(inbox) :
         /\ inbox' = RemoveAt(inbox, i)
         /\ content' # Loading

\* C23: the page has no ordering guard on fetches: with A sent, then B sent
\* before A's response arrives, and A's response arriving after B's, the
\* response of A overwrites the rows, total, groups and last-updated value
\* that B's had set; a fetch in flight is never cancelled by a newer one.
C23_StaleOverwrites == [][Overwrites /\ NeverCancelled]_vars

\* Nothing is in flight, the latest fetch was for the search "6", and the
\* table shows the vehicle 1, which that search does not list: the response
\* of an earlier fetch was handled last.
C23_Witness ==
  /\ outbox = <<>>
  /\ inbox = <<>>
  /\ pc = "idle"
  /\ currentSearch = <<"6">>
  /\ ~groupByMarriageInput
  /\ content.kind = "table"
  /\ \E i \in 1..Len(content.rows) : content.rows[i].vehicle = <<1>>
  /\ totalRecords > Cardinality({ c \in db.train_cars : includes(NumText(c.vehicle_id), <<"6">>) })

\* The text the error message is to have for a response that is not ok: its
\* error field, or the generic text when it has none.
ErrorText(response) ==
  IF "error" \in DOMAIN response.body THEN response.body.error ELSE "Failed to fetch data"

\* C24: for a response with a status that is not ok the page replaces the
\* content area by an error message with the text of the server's error
\* field, or the generic 'Failed to fetch data' when the field is absent, and
\* renders no rows of that response.
C24_ErrorFieldOrGeneric ==
  [][\A i \in 1..Len(inbox) :
       (inbox[i].status # 200 /\ inbox' = RemoveAt(inbox, i)) =>
         /\ content'.kind = "error"
         /\ content'.message = ErrorText(inbox[i])
         /\ content'.rows = <<>>
         /\ currentData' = currentData]_vars

\* No fetch is under way: none sent and not taken up, none with the worker,
\* no response on its way.
Quiet == outbox = <<>> /\ inbox = <<>> /\ pc = "idle"

\* C27: after any sequence of actions of the user (Search, Clear, toggling
\* the grouping, Next, Previous, edits of the search box in between) with
\* every fetch completed successfully, the current page is within the total
\* on display: currentPage = 0 or currentPage * pageSize < total items.
C27_PageInRange ==
  (Quiet /\ AfterDisplay) =>
    currentPage = 0 \/ currentPage * pageSize < stats.totalItems

\* C28: the page's and the server's search tests agree: for every vehicle
\* and every search term the member test of the grouped view (padded and raw
\* id, name, status, delivery and service dates, notes, model name,
\* case-insensitive contains) holds exactly when the WHERE clause of the
\* flat listing selects the vehicle.
C28_SearchTestsAgree ==
  (pc = "done" /\ resp.status = 200 /\ content.kind = "table") =>
    { resp.body.data[i].vehicle_id : i \in 1..Len(resp.body.data) }
      = { content.rows[i].vehicle[1] : i \in 1..Len(content.rows) }

=============================================================================
